---- MODULE Spec2Model ----
(***************************************************************************)
(* Booking coordination core of reserve-api: BookingService.createBooking  *)
(* and cancelBooking, the admin blockSlot / unblockSlot resolvers, and the *)
(* Redis lock shim (RedisClient.acquireLock / releaseLock).                *)
(*                                                                         *)
(* Every await of a handler is one step, so the handlers of concurrent     *)
(* requests interleave at their awaits, as they do on the event loop and   *)
(* across server processes.  The storage engine is PostgreSQL: a row       *)
(* locked by SELECT ... FOR UPDATE (or by an uncommitted UPDATE) makes the *)
(* next locker wait; a SERIALIZABLE transaction that waited for a row      *)
(* which was then changed by a committed transaction fails with a          *)
(* serialization error; writes of a transaction appear at its commit.      *)
(* Repositories that are not taken from the query runner (userRepo,        *)
(* bookingRepo, slotRepo) read the committed state.                        *)
(***************************************************************************)
EXTENDS Integers, FiniteSets, Sequences, TLC

\* ---------------------------------------------------------------- bounds
NumProcs == 2
NumUsers == 2
NumSlots == 1
MaxCapacity == 2
MaxGuests == 2
MaxFaults == 1

\* ------------------------------------------------------ program constants
MaxConcurrentBookings == 5

NoProc == 0
\* Every slot of the model belongs to one venue (and one date): the venue of
\* the one cache entry.  A request may name that venue or another one.
HomeVenue == 1
VenueArgs == {HomeVenue, HomeVenue + 1}
Procs == 1 .. NumProcs
\* User 0 stands for an id with no active row in users.
UserIds == 0 .. NumUsers
\* Slot id 0 stands for an id with no row in slots.
SlotIds == 1 .. NumSlots
SlotArgs == 0 .. NumSlots
\* A booking created by invocation p gets id p; id 0 is a booking that
\* exists before the first request.
BookingIds == 0 .. NumProcs
GuestCounts == 1 .. MaxGuests
\* What createBooking accepts as guestCount: the schema says Int! and nothing
\* on the way to the service checks the sign.
GuestArgs == -1 .. MaxGuests
\* Where "now" lies relative to the slot: its end has passed, it has started
\* and not ended, it starts within BOOKING_CANCELLATION_WINDOW_HOURS, it is
\* within the booking horizon, or it starts beyond the horizon.
SlotTimes == {"past", "started", "soon", "ok", "far"}

VARIABLES
    slots,        \* committed rows of table slots: id -> row
    bookings,     \* committed rows of table bookings (a set of rows)
    rowLock,      \* slot id -> transaction holding the row lock (or NoProc)
    bookingLock,  \* booking id -> transaction holding the row lock
    lock,         \* Redis: "lock:booking:slot:<id>" -> lockId (or NoProc)
    lease,        \* invocations whose lease is neither expired nor released
    cache,        \* Redis: the "slots:<venue>:<date>" entry (absent, or a list)
    jobs,         \* jobs added to the queue
    faults,       \* infrastructure failures the environment may still cause
    inv,          \* per invocation: position and local variables
    events,       \* the payloads passed to pubsub.publish, in order
    inbox         \* subscriber -> the payloads its iterator has yielded

vars ==
    <<slots, bookings, rowLock, bookingLock, lock, lease, cache, jobs, faults, inv,
      events, inbox>>

\* The subscriptions open: slotAvailabilityChanged(venueId) for each venue and
\* bookingStatusChanged(userId) for each user.
Subscribers ==
    {[topic |-> "SLOT_UPDATED", venueId |-> v, userId |-> 0] : v \in VenueArgs} \cup
    {[topic |-> "BOOKING_UPDATED", venueId |-> 0, userId |-> u] : u \in 1 .. NumUsers}

\* ------------------------------------------------------------ pure helpers

IsAvailable(slot) == slot.status = "AVAILABLE" /\ slot.remainingCapacity > 0

IsPast(slot) == slot.when = "past"

CanAccommodate(slot, g) == IsAvailable(slot) /\ slot.remainingCapacity >= g

BeyondAdvanceLimit(slot) == slot.when = "far"

\* (mutant) the checks without the one on BLOCKED.
Gauntlet_NoBlocked(slot, g) ==
    IF ~CanAccommodate(slot, g) THEN "INSUFFICIENT_CAPACITY"
    ELSE IF IsPast(slot) THEN "SLOT_IN_PAST"
    ELSE IF BeyondAdvanceLimit(slot) THEN "ADVANCE_LIMIT_EXCEEDED"
    ELSE "OK"

\* The checks of createBooking on the locked slot row, first failure wins.
Gauntlet(slot, g) ==
    IF slot.status = "BLOCKED" THEN "SLOT_BLOCKED"
    ELSE IF ~CanAccommodate(slot, g) THEN "INSUFFICIENT_CAPACITY"
    ELSE IF IsPast(slot) THEN "SLOT_IN_PAST"
    ELSE IF BeyondAdvanceLimit(slot) THEN "ADVANCE_LIMIT_EXCEEDED"
    ELSE "OK"

\* (mutant) the debit that forgets to flip the status at 0.
Debit_NoBooked(slot, g) ==
    [slot EXCEPT !.remainingCapacity = slot.remainingCapacity - g]

Debit(slot, g) ==
    LET rem == slot.remainingCapacity - g
    IN  [slot EXCEPT !.remainingCapacity = rem,
                     !.status = IF rem = 0 THEN "BOOKED" ELSE slot.status]

\* (mutant) the credit that leaves an exhausted slot BOOKED.
Credit_NoFlip(slot, g) ==
    [slot EXCEPT !.remainingCapacity = slot.remainingCapacity + g]

Credit(slot, g) ==
    LET rem == slot.remainingCapacity + g
    IN  [slot EXCEPT !.remainingCapacity = rem,
                     !.status = IF slot.status = "BOOKED" /\ rem > 0
                                THEN "AVAILABLE" ELSE slot.status]

\* slot.startTime > :now.
StartsAfterNow(slot) == slot.when \in {"soon", "ok", "far"}

\* The order of startTime, as far as the model tells slots apart in time.
StartRank(slot) ==
    CASE slot.when = "past" -> 0
      [] slot.when = "started" -> 1
      [] slot.when = "soon" -> 2
      [] slot.when = "ok" -> 3
      [] slot.when = "far" -> 4

\* @Check('"remaining_capacity" >= 0') of the slots table.
CheckConstraintOk(slot) == slot.remainingCapacity >= 0

\* The cutoff that isCancellable computes from the cancellation window (and
\* then leaves unused): the slot starts at or before now + window.
WithinCancellationWindow(slot) == slot.when \in {"past", "started", "soon"}

\* (mutant) every booking is cancellable.
IsCancellable_Always(b) == TRUE

IsCancellable(b) == ~(b.status = "CANCELLED" \/ b.status = "COMPLETED")

\* (mutant) every BookingError is thrown with the default statusCode.
StatusCode_Default(code) == 400

\* The statusCode of the BookingError thrown with each code (400 when the
\* throw passes none).
StatusCode(code) ==
    CASE code \in {"SLOT_LOCKED", "DUPLICATE_BOOKING"} -> 409
      [] code \in {"USER_NOT_FOUND", "SLOT_NOT_FOUND", "BOOKING_NOT_FOUND"} -> 404
      [] code = "MAX_BOOKINGS_REACHED" -> 429
      [] code = "UNAUTHORIZED" -> 403
      [] OTHER -> 400

\* users.role: the last user is the administrator, the others are members.
RoleOf(u) == IF u = NumUsers THEN "admin" ELSE "member"

ActiveUser(u) == u \in 1 .. NumUsers

ConfirmedCount(u) ==
    Cardinality({b \in bookings : b.userId = u /\ b.status = "CONFIRMED"})

\* (mutant) the duplicate check is left out.
HasConfirmed_Skipped(u, s) == FALSE

HasConfirmed(u, s) ==
    \E b \in bookings : b.userId = u /\ b.slotId = s /\ b.status = "CONFIRMED"

\* (mutant) SET without NX: the key is overwritten whoever holds it.
SetNxGrants_NoNx(k) == TRUE

\* SET lock:<key> <lockId> PX ttl NX answers OK only when the key is absent.
SetNxGrants(k) == lock[k] = NoProc

\* (mutant) release as a plain DEL of the key.
ReleaseMatches_PlainDel(k, id) == lock[k] # NoProc

\* The release script deletes the key only when it holds the caller's lockId.
ReleaseMatches(k, id) == lock[k] = id

\* (mutant) the slot is read without a row lock.
PessimisticWriteGranted_NoLock(s) == TRUE

\* SELECT ... FOR UPDATE (setLock('pessimistic_write')) waits for the row lock.
PessimisticWriteGranted(s) == rowLock[s] = NoProc

\* A SERIALIZABLE transaction whose snapshot is older than the committed
\* version of the row it locks fails ("could not serialize access").
SerializationConflict(s, snap) == slots[s].ver # snap

\* (mutant) the query without its conditions on status and capacity.
AvailableRows_Unfiltered == {s \in DOMAIN slots : StartsAfterNow(slots[s])}

\* The rows the query of getAvailableSlots selects (every slot of the model
\* has the venueId and the date of the one cache key).
AvailableRows ==
    {s \in DOMAIN slots : /\ slots[s].status = "AVAILABLE"
                          /\ slots[s].remainingCapacity > 0
                          /\ StartsAfterNow(slots[s])}

\* ORDER BY slot.startTime ASC (rows with one startTime in the order of their
\* ids), as the list of slot ids that getMany returns.
RECURSIVE OrderByStartTime(_)
OrderByStartTime(S) ==
    IF S = {} THEN <<>>
    ELSE LET first == CHOOSE s \in S : \A x \in S :
                          \/ StartRank(slots[s]) < StartRank(slots[x])
                          \/ StartRank(slots[s]) = StartRank(slots[x]) /\ s <= x
         IN  <<first>> \o OrderByStartTime(S \ {first})

\* The cache entry: absent, or the list that was stored (JSON.stringify of a
\* list is never the empty string, so a stored list always counts as a hit).
CacheMiss == [hit |-> FALSE, list |-> <<>>]

CacheEntry(l) == [hit |-> TRUE, list |-> l]

\* @BeforeInsert generateConfirmationCode: the code that uuidv4 yields for the
\* booking of invocation p; a draw of NoProc is a code no other booking has.
GeneratedCode(p, draw) == IF draw = NoProc THEN p ELSE draw

\* (mutant) confirmation_code without its unique index.
UniqueViolation_NoIndex(code) == FALSE

\* The unique index on confirmation_code refuses the INSERT of a code that a
\* committed booking carries.
UniqueViolation(code) == \E b \in bookings : b.confirmationCode = code

\* ------------------------------------------------------------------ state

NoSlot ==
    [capacity |-> 0, remainingCapacity |-> 0, status |-> "NONE", when |-> "ok", ver |-> 0,
     blockedBy |-> NoProc, venueId |-> HomeVenue, heldUntil |-> "none"]

NoBooking ==
    [id |-> 0, userId |-> 0, slotId |-> 0, guestCount |-> 0, status |-> "NONE",
     cancelledAt |-> NoProc, venueId |-> HomeVenue, confirmationCode |-> 0]

\* (mutant) the payload without the user.
Job_NoUser(name, b, u, code) ==
    [name |-> name, bookingId |-> b, userId |-> 0, confirmationCode |-> code,
     state |-> "waiting", handledBy |-> "none"]

\* queue.add(name, data): a job waits for a worker; data carries the booking
\* id, the user id and, for booking:confirmed, the confirmation code.
Job(name, b, u, code) ==
    [name |-> name, bookingId |-> b, userId |-> u, confirmationCode |-> code,
     state |-> "waiting", handledBy |-> "none"]

IdleInv ==
    [pc |-> "idle", op |-> "none", userId |-> 0, slotId |-> 0, guestCount |-> 0,
     bookingId |-> 0, lockId |-> NoProc, conn |-> FALSE, tx |-> FALSE,
     committed |-> FALSE,
     snap |-> 0, base |-> 0,
     slot |-> NoSlot, booking |-> NoBooking, err |-> "none", result |-> "none",
     released |-> FALSE, releaseResult |-> FALSE, list |-> <<>>,
     venueId |-> HomeVenue, draw |-> NoProc]

\* What is left of an invocation once it has returned or thrown: its locals
\* are gone; the outcome and what the properties below read are kept.
Returned(me, res) ==
    [IdleInv EXCEPT !.pc = "done", !.op = me.op, !.slotId = me.slotId,
                    !.bookingId = me.bookingId, !.lockId = me.lockId,
                    !.conn = me.conn, !.tx = me.tx,
                    !.committed = me.committed, !.base = me.base, !.result = res,
                    !.released = me.released, !.releaseResult = me.releaseResult,
                    !.draw = me.draw]

\* blockedBy (and blockReason with it) is absent from metadata, or names the
\* BlockSlot call whose administrator and reason the metadata carries.
\* heldUntil is null, or lies in the past: the hold of a HELD row has run out.
SlotRow(cap, rem, st, w) ==
    [capacity |-> cap, remainingCapacity |-> rem, status |-> st, when |-> w, ver |-> 0,
     blockedBy |-> NoProc, venueId |-> HomeVenue,
     heldUntil |-> IF st = "HELD" THEN "past" ELSE "none"]

\* cancelledAt (and cancellationReason with it) is null, or names the
\* CancelBooking call whose time and reason the row carries.
\* The rows present at the start carry the venue of their slot and codes of
\* their own.
BookingRow(id, u, s, g, st) ==
    [id |-> id, userId |-> u, slotId |-> s, guestCount |-> g, status |-> st,
     cancelledAt |-> NoProc, venueId |-> HomeVenue, confirmationCode |-> id]

InitCommon ==
    /\ rowLock = [s \in SlotIds |-> NoProc]
    /\ bookingLock = [b \in BookingIds |-> NoProc]
    /\ lock = [k \in SlotArgs |-> NoProc]
    /\ lease = {}
    /\ cache = CacheEntry(OrderByStartTime(AvailableRows))
    /\ jobs = {}
    /\ faults = MaxFaults
    /\ inv = [p \in Procs |-> IdleInv]
    /\ events = <<>>
    /\ inbox = [sub \in Subscribers |-> <<>>]

\* Freshly provisioned slots: full capacity, no bookings.
InitFresh ==
    /\ \E cap \in 1 .. MaxCapacity :
          slots = [s \in SlotIds |-> SlotRow(cap, cap, "AVAILABLE", "ok")]
    /\ bookings = {}
    /\ InitCommon

\* Slot 1 may already carry one CONFIRMED booking (id 0, user 1).
InitBooked ==
    /\ \E cap \in 1 .. MaxCapacity, g \in 0 .. MaxGuests :
          /\ g <= cap
          /\ slots = [s \in SlotIds |->
                        IF s = 1 /\ g > 0
                        THEN SlotRow(cap, cap - g, IF cap = g THEN "BOOKED" ELSE "AVAILABLE", "ok")
                        ELSE SlotRow(cap, cap, "AVAILABLE", "ok")]
          /\ bookings = IF g > 0 THEN {BookingRow(0, 1, 1, g, "CONFIRMED")} ELSE {}
    /\ InitCommon

Set(p, r) == inv' = [inv EXCEPT ![p] = r]

\* One call into the infrastructure (pool, database, Redis, queue) fails.
Fault == faults > 0 /\ faults' = faults - 1

NoFault == faults' = faults

\* ------------------------------------------------- RedisClient (the lock)

\* (mutant) a key set without PX: it never expires.
Expire_Never(k) ==
    /\ FALSE
    /\ UNCHANGED vars

\* The TTL of the key has elapsed: Redis drops it.
Expire(k) ==
    /\ lock[k] # NoProc
    /\ lock' = [lock EXCEPT ![k] = NoProc]
    /\ lease' = lease \ {lock[k]}
    /\ UNCHANGED <<events, inbox, slots, bookings, rowLock, bookingLock, cache, jobs, faults, inv>>

\* ------------------------------------------- BookingService.createBooking

\* createBooking({userId, slotId, venueId, guestCount}): acquireLock(lockKey,
\* 15000) and the SLOT_LOCKED exit.
CB_AcquireFor(p, u, s, g, v) ==
    /\ inv[p].pc = "idle"
    /\ LET me == [inv[p] EXCEPT !.op = "create", !.userId = u, !.slotId = s, !.guestCount = g,
                                !.venueId = v]
       IN  IF SetNxGrants(s)
           THEN /\ lock' = [lock EXCEPT ![s] = p]
                /\ lease' = lease \cup {p}
                /\ Set(p, [me EXCEPT !.pc = "connect", !.lockId = p])
           ELSE /\ UNCHANGED <<events, inbox, lock, lease>>
                /\ Set(p, Returned(me, "SLOT_LOCKED"))
    /\ UNCHANGED <<events, inbox, slots, bookings, rowLock, bookingLock, cache, jobs, faults>>

\* The request that names the venue of its slot.
CB_Acquire(p, u, s, g) == CB_AcquireFor(p, u, s, g, HomeVenue)

\* queryRunner.connect(); startTransaction('SERIALIZABLE'): outside the try.
CB_Connect(p) ==
    /\ inv[p].pc = "connect"
    /\ \/ /\ NoFault
          /\ Set(p, [inv[p] EXCEPT !.pc = "usercheck", !.conn = TRUE, !.tx = TRUE])
       \/ /\ Fault
          /\ Set(p, Returned(inv[p], "CONNECT_FAILED"))
    /\ UNCHANGED <<events, inbox, slots, bookings, rowLock, bookingLock, lock, lease, cache, jobs>>

\* userRepo.findOne and bookingRepo.count, on the committed state.
CB_UserCheck(p) ==
    /\ inv[p].pc = "usercheck"
    /\ LET me == inv[p]
       IN  IF ~ActiveUser(me.userId)
           THEN Set(p, [me EXCEPT !.pc = "catch", !.err = "USER_NOT_FOUND"])
           ELSE IF ConfirmedCount(me.userId) >= MaxConcurrentBookings
           THEN Set(p, [me EXCEPT !.pc = "catch", !.err = "MAX_BOOKINGS_REACHED"])
           ELSE Set(p, [me EXCEPT !.pc = "selslot"])
    /\ UNCHANGED <<events, inbox, slots, bookings, rowLock, bookingLock, lock, lease, cache, jobs, faults>>

\* The SELECT ... FOR UPDATE is issued: the transaction's snapshot is taken.
CB_SelectSlot(p) ==
    /\ inv[p].pc = "selslot"
    /\ LET me == inv[p]
       IN  IF me.slotId \notin DOMAIN slots
           THEN Set(p, [me EXCEPT !.pc = "catch", !.err = "SLOT_NOT_FOUND"])
           ELSE Set(p, [me EXCEPT !.pc = "rowwait", !.snap = slots[me.slotId].ver])
    /\ UNCHANGED <<events, inbox, slots, bookings, rowLock, bookingLock, lock, lease, cache, jobs, faults>>

\* The row lock is granted (or the statement fails); then the checks on the row.
CB_LockRow(p) ==
    /\ inv[p].pc = "rowwait"
    /\ PessimisticWriteGranted(inv[p].slotId)
    /\ LET me == inv[p]
           s == me.slotId
           code == Gauntlet(slots[s], me.guestCount)
       IN  IF SerializationConflict(s, me.snap)
           THEN /\ Set(p, [me EXCEPT !.pc = "catch", !.err = "SERIALIZATION_FAILURE", !.snap = 0])
                /\ UNCHANGED rowLock
           ELSE /\ rowLock' = [rowLock EXCEPT ![s] = p]
                /\ IF code # "OK"
                   THEN Set(p, [me EXCEPT !.pc = "catch", !.err = code, !.snap = 0])
                   ELSE Set(p, [me EXCEPT !.pc = "dupcheck", !.slot = slots[s], !.snap = 0])
    /\ UNCHANGED <<events, inbox, slots, bookings, bookingLock, lock, lease, cache, jobs, faults>>

\* bookingRepo.findOne (committed state), then save(booking) and save(slot)
\* inside the transaction.  The INSERT waits while another open transaction
\* has inserted the same confirmation_code.
CB_DupCheck(p) ==
    /\ inv[p].pc = "dupcheck"
    /\ \A q \in DOMAIN inv :
          (q # p /\ inv[q].pc = "commit")
              => GeneratedCode(q, inv[q].draw) # GeneratedCode(p, inv[p].draw)
    /\ LET me == inv[p]
           debited == Debit(me.slot, me.guestCount)
       IN  IF HasConfirmed(me.userId, me.slotId)
           THEN Set(p, [me EXCEPT !.pc = "catch", !.err = "DUPLICATE_BOOKING", !.slot = NoSlot])
           ELSE IF UniqueViolation(GeneratedCode(p, me.draw))
           THEN Set(p, [me EXCEPT !.pc = "catch", !.err = "UNIQUE_VIOLATION", !.slot = NoSlot])
           ELSE IF ~CheckConstraintOk(debited)
           THEN Set(p, [me EXCEPT !.pc = "catch", !.err = "CHECK_VIOLATION", !.slot = NoSlot])
           ELSE Set(p, [me EXCEPT !.pc = "commit", !.slot = debited, !.base = me.slot.ver])
    /\ UNCHANGED <<events, inbox, slots, bookings, rowLock, bookingLock, lock, lease, cache, jobs, faults>>

\* queryRunner.commitTransaction().
CB_Commit(p) ==
    /\ inv[p].pc = "commit"
    /\ LET me == inv[p]
           s == me.slotId
       IN  \/ /\ NoFault
              /\ bookings' = bookings \cup
                    {[BookingRow(p, me.userId, s, me.guestCount, "CONFIRMED")
                        EXCEPT !.venueId = me.venueId,
                               !.confirmationCode = GeneratedCode(p, me.draw)]}
              /\ slots' = [slots EXCEPT ![s] = [me.slot EXCEPT !.ver = slots[s].ver + 1]]
              /\ rowLock' = [rowLock EXCEPT ![s] = NoProc]
              /\ Set(p, [me EXCEPT !.pc = "invalidate", !.tx = FALSE, !.committed = TRUE,
                                   !.bookingId = p,
                                   !.slot = NoSlot])
           \/ /\ Fault
              /\ Set(p, [me EXCEPT !.pc = "catch", !.err = "COMMIT_FAILED", !.slot = NoSlot])
              /\ UNCHANGED <<events, inbox, slots, bookings, rowLock>>
    /\ UNCHANGED <<events, inbox, bookingLock, lock, lease, cache, jobs>>

\* invalidateSlotCache(venueId, slot.date): redis.del of the key of the venue
\* that the request named.
CB_Invalidate(p) ==
    /\ inv[p].pc = "invalidate"
    /\ \/ /\ NoFault
          /\ cache' = IF inv[p].venueId = HomeVenue THEN CacheMiss ELSE cache
          /\ Set(p, [inv[p] EXCEPT !.pc = "enqueue"])
       \/ /\ Fault
          /\ Set(p, [inv[p] EXCEPT !.pc = "catch", !.err = "CACHE_FAILED"])
          /\ UNCHANGED cache
    /\ UNCHANGED <<events, inbox, slots, bookings, rowLock, bookingLock, lock, lease, jobs>>

\* queueService.addJob('booking:confirmed'), notificationService.send (which
\* swallows its own failures), return booking.
CB_Enqueue(p) ==
    /\ inv[p].pc = "enqueue"
    /\ \/ /\ NoFault
          /\ jobs' = jobs \cup {Job("booking:confirmed", p, inv[p].userId,
                                     GeneratedCode(p, inv[p].draw))}
          /\ Set(p, [inv[p] EXCEPT !.pc = "release", !.result = "OK"])
       \/ /\ Fault
          /\ Set(p, [inv[p] EXCEPT !.pc = "catch", !.err = "QUEUE_FAILED"])
          /\ UNCHANGED jobs
    /\ UNCHANGED <<events, inbox, slots, bookings, rowLock, bookingLock, lock, lease, cache>>

\* (mutant) catch that rethrows without rollbackTransaction().
CB_Catch_NoRollback(p) ==
    /\ inv[p].pc = "catch"
    /\ Set(p, [inv[p] EXCEPT !.pc = "release", !.result = inv[p].err, !.err = "none"])
    /\ UNCHANGED <<events, inbox, slots, bookings, rowLock, bookingLock, lock, lease, cache, jobs, faults>>

\* catch: rollbackTransaction(); throw error.  With no transaction active
\* rollbackTransaction itself throws TransactionNotStartedError.
CB_Catch(p) ==
    /\ inv[p].pc = "catch"
    /\ LET me == inv[p]
       IN  IF me.tx
           THEN /\ rowLock' = [r \in DOMAIN rowLock |-> IF rowLock[r] = p THEN NoProc ELSE rowLock[r]]
                /\ Set(p, [me EXCEPT !.pc = "release", !.tx = FALSE, !.result = me.err,
                                     !.err = "none"])
           ELSE /\ UNCHANGED rowLock
                /\ Set(p, [me EXCEPT !.pc = "release", !.result = "TX_NOT_STARTED", !.err = "none"])
    /\ UNCHANGED <<events, inbox, slots, bookings, bookingLock, lock, lease, cache, jobs, faults>>

\* finally: queryRunner.release().
CB_Release(p) ==
    /\ inv[p].pc = "release"
    /\ \/ /\ NoFault
          /\ Set(p, [inv[p] EXCEPT !.pc = "unlock", !.conn = FALSE])
       \/ /\ Fault
          /\ Set(p, Returned(inv[p], "RELEASE_FAILED"))
    /\ UNCHANGED <<events, inbox, slots, bookings, rowLock, bookingLock, lock, lease, cache, jobs>>

\* finally: RedisClient.releaseLock(lockKey, lockId).
CB_Unlock(p) ==
    /\ inv[p].pc = "unlock"
    /\ LET me == inv[p]
           k == me.slotId
           hit == ReleaseMatches(k, me.lockId)
       IN  /\ lock' = IF hit THEN [lock EXCEPT ![k] = NoProc] ELSE lock
           /\ lease' = IF hit THEN lease \ {me.lockId} ELSE lease
           /\ Set(p, Returned([me EXCEPT !.released = TRUE, !.releaseResult = hit], me.result))
    /\ UNCHANGED <<events, inbox, slots, bookings, rowLock, bookingLock, cache, jobs, faults>>

CreateBooking(p) ==
    \/ \E u \in UserIds, s \in SlotArgs, g \in GuestCounts : CB_Acquire(p, u, s, g)
    \/ CB_Connect(p)
    \/ CB_UserCheck(p)
    \/ CB_SelectSlot(p)
    \/ CB_LockRow(p)
    \/ CB_DupCheck(p)
    \/ CB_Commit(p)
    \/ CB_Invalidate(p)
    \/ CB_Enqueue(p)
    \/ CB_Catch(p)
    \/ CB_Release(p)
    \/ CB_Unlock(p)

\* ------------------------------------------- BookingService.cancelBooking

\* bookingRepo.findOne and the three checks before the transaction.  A refusal
\* keeps the caller it refused.
CN_Load(p, b, u) ==
    /\ inv[p].pc = "idle"
    /\ LET me == [inv[p] EXCEPT !.op = "cancel", !.userId = u, !.bookingId = b]
           rows == {r \in bookings : r.id = b}
           row == CHOOSE r \in rows : TRUE
       IN  IF rows = {}
           THEN Set(p, Returned(me, "BOOKING_NOT_FOUND"))
           ELSE IF row.userId # u
           THEN Set(p, [Returned(me, "UNAUTHORIZED") EXCEPT !.userId = u])
           ELSE IF ~IsCancellable(row)
           THEN Set(p, [Returned(me, "CANCELLATION_NOT_ALLOWED") EXCEPT !.userId = u])
           ELSE Set(p, [me EXCEPT !.pc = "cconnect", !.booking = row, !.slotId = row.slotId])
    /\ UNCHANGED <<events, inbox, slots, bookings, rowLock, bookingLock, lock, lease, cache, jobs, faults>>

\* queryRunner.connect(); startTransaction(): outside the try.
CN_Connect(p) ==
    /\ inv[p].pc = "cconnect"
    /\ \/ /\ NoFault
          /\ Set(p, [inv[p] EXCEPT !.pc = "csave", !.conn = TRUE, !.tx = TRUE])
       \/ /\ Fault
          /\ Set(p, Returned(inv[p], "CONNECT_FAILED"))
    /\ UNCHANGED <<events, inbox, slots, bookings, rowLock, bookingLock, lock, lease, cache, jobs>>

\* booking.status = CANCELLED; cancelledAt = new Date(); cancellationReason =
\* reason; save(booking): the UPDATE takes the row lock of the booking and
\* waits for another transaction that holds it.
CN_SaveBooking(p) ==
    /\ inv[p].pc = "csave"
    /\ bookingLock[inv[p].bookingId] = NoProc
    /\ bookingLock' = [bookingLock EXCEPT ![inv[p].bookingId] = p]
    /\ Set(p, [inv[p] EXCEPT !.pc = "cselslot", !.booking.status = "CANCELLED",
                                !.booking.cancelledAt = p])
    /\ UNCHANGED <<events, inbox, slots, bookings, rowLock, lock, lease, cache, jobs, faults>>

\* SELECT slot FOR UPDATE in a READ COMMITTED transaction: waits for the row
\* lock and reads the latest committed row; then the credit and save(slot).
CN_LockSlot(p) ==
    /\ inv[p].pc = "cselslot"
    /\ PessimisticWriteGranted(inv[p].slotId)
    /\ LET me == inv[p]
           s == me.slotId
       IN  /\ rowLock' = [rowLock EXCEPT ![s] = p]
           /\ Set(p, [me EXCEPT !.pc = "ccommit", !.slot = Credit(slots[s], me.booking.guestCount)])
    /\ UNCHANGED <<events, inbox, slots, bookings, bookingLock, lock, lease, cache, jobs, faults>>

\* queryRunner.commitTransaction().
CN_Commit(p) ==
    /\ inv[p].pc = "ccommit"
    /\ LET me == inv[p]
           s == me.slotId
       IN  \/ /\ NoFault
              /\ bookings' = {r \in bookings : r.id # me.bookingId} \cup {me.booking}
              /\ slots' = [slots EXCEPT ![s] = [me.slot EXCEPT !.ver = slots[s].ver + 1]]
              /\ rowLock' = [rowLock EXCEPT ![s] = NoProc]
              /\ bookingLock' = [bookingLock EXCEPT ![me.bookingId] = NoProc]
              /\ Set(p, [me EXCEPT !.pc = "cinvalidate", !.tx = FALSE, !.committed = TRUE,
                                   !.slot = NoSlot,
                                   !.booking = NoBooking])
           \/ /\ Fault
              /\ Set(p, [me EXCEPT !.pc = "ccatch", !.err = "COMMIT_FAILED", !.slot = NoSlot,
                                   !.booking = NoBooking])
              /\ UNCHANGED <<events, inbox, slots, bookings, rowLock, bookingLock>>
    /\ UNCHANGED <<events, inbox, lock, lease, cache, jobs>>

\* invalidateSlotCache(booking.venueId, booking.bookingDate).
CN_Invalidate(p) ==
    /\ inv[p].pc = "cinvalidate"
    /\ \/ /\ NoFault
          /\ cache' = IF \E b \in bookings : b.id = inv[p].bookingId /\ b.venueId = HomeVenue
                      THEN CacheMiss ELSE cache
          /\ Set(p, [inv[p] EXCEPT !.pc = "cenqueue"])
       \/ /\ Fault
          /\ Set(p, [inv[p] EXCEPT !.pc = "ccatch", !.err = "CACHE_FAILED"])
          /\ UNCHANGED cache
    /\ UNCHANGED <<events, inbox, slots, bookings, rowLock, bookingLock, lock, lease, jobs>>

\* queueService.addJob('booking:cancelled'), notificationService.send,
\* return booking.
CN_Enqueue(p) ==
    /\ inv[p].pc = "cenqueue"
    /\ \/ /\ NoFault
          /\ jobs' = jobs \cup {Job("booking:cancelled", inv[p].bookingId, inv[p].userId, 0)}
          /\ Set(p, [inv[p] EXCEPT !.pc = "crelease", !.result = "OK"])
       \/ /\ Fault
          /\ Set(p, [inv[p] EXCEPT !.pc = "ccatch", !.err = "QUEUE_FAILED"])
          /\ UNCHANGED jobs
    /\ UNCHANGED <<events, inbox, slots, bookings, rowLock, bookingLock, lock, lease, cache>>

\* catch: rollbackTransaction(); throw error.
CN_Catch(p) ==
    /\ inv[p].pc = "ccatch"
    /\ LET me == inv[p]
       IN  IF me.tx
           THEN /\ rowLock' = [r \in DOMAIN rowLock |-> IF rowLock[r] = p THEN NoProc ELSE rowLock[r]]
                /\ bookingLock' = [b \in DOMAIN bookingLock |->
                                     IF bookingLock[b] = p THEN NoProc ELSE bookingLock[b]]
                /\ Set(p, [me EXCEPT !.pc = "crelease", !.tx = FALSE, !.result = me.err,
                                     !.err = "none"])
           ELSE /\ UNCHANGED <<events, inbox, rowLock, bookingLock>>
                /\ Set(p, [me EXCEPT !.pc = "crelease", !.result = "TX_NOT_STARTED", !.err = "none"])
    /\ UNCHANGED <<events, inbox, slots, bookings, lock, lease, cache, jobs, faults>>

\* finally: queryRunner.release().
CN_Release(p) ==
    /\ inv[p].pc = "crelease"
    /\ \/ /\ NoFault
          /\ Set(p, Returned([inv[p] EXCEPT !.conn = FALSE], inv[p].result))
       \/ /\ Fault
          /\ Set(p, Returned(inv[p], "RELEASE_FAILED"))
    /\ UNCHANGED <<events, inbox, slots, bookings, rowLock, bookingLock, lock, lease, cache, jobs>>

CancelBooking(p) ==
    \/ \E b \in BookingIds, u \in UserIds : CN_Load(p, b, u)
    \/ CN_Connect(p)
    \/ CN_SaveBooking(p)
    \/ CN_LockSlot(p)
    \/ CN_Commit(p)
    \/ CN_Invalidate(p)
    \/ CN_Enqueue(p)
    \/ CN_Catch(p)
    \/ CN_Release(p)

\* ------------------------------------- Mutation.blockSlot / unblockSlot

\* slotRepo.findOne({ where: { id: slotId } }) of either resolver.
AdminRead(p, s, op) ==
    /\ inv[p].pc = "idle"
    /\ LET me == [inv[p] EXCEPT !.op = op, !.slotId = s]
       IN  IF s \notin DOMAIN slots
           THEN Set(p, Returned(me, "NOT_FOUND"))
           ELSE Set(p, [me EXCEPT !.pc = "adminsave", !.slot = slots[s]])
    /\ UNCHANGED <<events, inbox, slots, bookings, rowLock, bookingLock, lock, lease, cache, jobs, faults>>

\* (mutant) the save that also resets remainingCapacity to capacity.
AdminSave_FullCapacity(p, status) ==
    /\ inv[p].pc = "adminsave"
    /\ PessimisticWriteGranted(inv[p].slotId)
    /\ LET me == inv[p]
           s == me.slotId
       IN  /\ slots' = [slots EXCEPT ![s] = [me.slot EXCEPT !.status = status,
                                                            !.remainingCapacity = me.slot.capacity,
                                                            !.ver = slots[s].ver + 1]]
           /\ Set(p, Returned(me, "OK"))
    /\ UNCHANGED <<events, inbox, bookings, rowLock, bookingLock, lock, lease, cache, jobs, faults>>

\* slot.status = ...; (blockSlot: slot.metadata = {...metadata, blockReason,
\* blockedBy};) slotRepo.save(slot): the entity as it was read, with the new
\* status, replaces the row (the UPDATE waits for a row lock).
AdminSave(p, status) ==
    /\ inv[p].pc = "adminsave"
    /\ PessimisticWriteGranted(inv[p].slotId)
    /\ LET me == inv[p]
           s == me.slotId
       IN  /\ slots' = [slots EXCEPT ![s] =
                           [me.slot EXCEPT !.status = status,
                                           !.blockedBy = IF status = "BLOCKED" THEN p ELSE @,
                                           !.ver = slots[s].ver + 1]]
           /\ Set(p, Returned(me, "OK"))
    /\ UNCHANGED <<events, inbox, bookings, rowLock, bookingLock, lock, lease, cache, jobs, faults>>

BlockSlot(p) ==
    \/ \E s \in SlotArgs : AdminRead(p, s, "block")
    \/ inv[p].op = "block" /\ AdminSave(p, "BLOCKED")

UnblockSlot(p) ==
    \/ \E s \in SlotArgs : AdminRead(p, s, "unblock")
    \/ inv[p].op = "unblock" /\ AdminSave(p, "AVAILABLE")

\* --------------------------------------- BookingService.getAvailableSlots

\* redis.get(cacheKey); a hit returns JSON.parse(cached).
GA_Get(p) ==
    /\ inv[p].pc = "idle"
    /\ LET me == [inv[p] EXCEPT !.op = "read"]
       IN  IF cache.hit
           THEN Set(p, [Returned(me, "OK") EXCEPT !.list = cache.list])
           ELSE Set(p, [me EXCEPT !.pc = "query"])
    /\ UNCHANGED <<events, inbox, slots, bookings, rowLock, bookingLock, lock, lease, cache, jobs, faults>>

\* The query on slots (a plain read of the committed rows).
GA_Query(p) ==
    /\ inv[p].pc = "query"
    /\ Set(p, [inv[p] EXCEPT !.pc = "cacheset", !.list = OrderByStartTime(AvailableRows)])
    /\ UNCHANGED <<events, inbox, slots, bookings, rowLock, bookingLock, lock, lease, cache, jobs, faults>>

\* redis.set(cacheKey, JSON.stringify(slots), 'EX', 60); return slots.
GA_Set(p) ==
    /\ inv[p].pc = "cacheset"
    /\ cache' = CacheEntry(inv[p].list)
    /\ Set(p, [Returned(inv[p], "OK") EXCEPT !.list = inv[p].list])
    /\ UNCHANGED <<events, inbox, slots, bookings, rowLock, bookingLock, lock, lease, jobs, faults>>

GetAvailableSlots(p) ==
    \/ GA_Get(p)
    \/ GA_Query(p)
    \/ GA_Set(p)

\* The 60 seconds of the cache entry run out.
CacheExpire ==
    /\ cache.hit
    /\ cache' = CacheMiss
    /\ UNCHANGED <<events, inbox, slots, bookings, rowLock, bookingLock, lock, lease, jobs, faults, inv>>

\* ------------------------------------------- QueueService (the workers)

\* The names that bootstrap registers a worker for.
WorkerNames == {"booking:confirmed", "booking:cancelled"}

\* The processor of the worker registered for jobName: a job of another name
\* makes it return at once, without a call of the handler.
HandlerRuns(jobName, job) == job.name = jobName

\* A Worker of queue reserve-jobs takes the next waiting job, whatever its
\* name, and runs its processor; the processor returns, so the job is
\* completed.
WorkerProcess(w, j) ==
    /\ j \in jobs
    /\ j.state = "waiting"
    /\ jobs' = (jobs \ {j}) \cup
                   {[j EXCEPT !.state = "completed",
                              !.handledBy = IF HandlerRuns(w, j) THEN w ELSE "none"]}
    /\ UNCHANGED <<events, inbox, slots, bookings, rowLock, bookingLock, lock, lease, cache, faults, inv>>

\* scheduleRecurring('slot:reclaim-expired-holds', {}, '*/5 * * * *'): every
\* five minutes the repeatable job adds an instance to the queue.
ScheduleTick ==
    /\ \A j \in jobs : ~(j.name = "slot:reclaim-expired-holds" /\ j.state = "waiting")
    /\ jobs' = jobs \cup {Job("slot:reclaim-expired-holds", 0, 0, 0)}
    /\ UNCHANGED <<events, inbox, slots, bookings, rowLock, bookingLock, lock, lease, cache, faults, inv>>

\* ------------------------------- resolvers: publish and Subscription

\* The payload of SLOT_UPDATED, built from the row the resolver read.
SlotUpdate(s, slot) ==
    [type |-> "SlotUpdate", slotId |-> s, venueId |-> slot.venueId,
     status |-> slot.status, remainingCapacity |-> slot.remainingCapacity,
     bookingId |-> 0, confirmationCode |-> 0, userId |-> 0]

\* The payload of BOOKING_UPDATED, built from the booking createBooking
\* returned (CONFIRMED, with the code it generated) and the caller's userId.
BookingUpdate(b, code, u) ==
    [type |-> "BookingUpdate", slotId |-> 0, venueId |-> 0,
     status |-> "CONFIRMED", remainingCapacity |-> 0,
     bookingId |-> b, confirmationCode |-> code, userId |-> u]

\* (mutant) slotAvailabilityChanged without its filter.
SlotFilter_Open(payload, variables) == TRUE

\* withFilter of slotAvailabilityChanged.
SlotFilter(payload, variables) == payload.venueId = variables.venueId

\* withFilter of bookingStatusChanged.
BookingFilter(payload, variables) == payload.userId = variables.userId

\* The iterator of a subscription yields the payloads of its own topic that
\* pass its filter.
Passes(sub, e) ==
    IF sub.topic = "SLOT_UPDATED"
    THEN e.type = "SlotUpdate" /\ SlotFilter(e, sub)
    ELSE e.type = "BookingUpdate" /\ BookingFilter(e, sub)

\* pubsub.publish of each payload of es, in order.
Publish(es) ==
    /\ events' = events \o es
    /\ inbox' = [sub \in Subscribers |->
                    inbox[sub] \o SelectSeq(es, LAMBDA e : Passes(sub, e))]

\* The userId of the caller of createBooking p: the one the resolver passed
\* to the service, which the row p carries.
CallerOf(p) == (CHOOSE b \in bookings : b.id = p).userId

\* After the service has returned a booking: getRepository(Slot).findOne of
\* the slot, outside any transaction.
RS_FindSlot(p) ==
    /\ inv[p].pc = "done"
    /\ inv[p].op \in {"create", "cancel"}
    /\ inv[p].result = "OK"
    /\ Set(p, [inv[p] EXCEPT !.pc = "publish", !.slot = slots[inv[p].slotId]])
    /\ UNCHANGED <<events, inbox, slots, bookings, rowLock, bookingLock, lock, lease, cache, jobs, faults>>

\* publish(SLOT_UPDATED) with what was read and, in createBooking,
\* publish(BOOKING_UPDATED); the resolver returns.
RS_Publish(p) ==
    /\ inv[p].pc = "publish"
    /\ LET me == inv[p]
       IN  /\ Publish(<<SlotUpdate(me.slotId, me.slot)>> \o
                      (IF me.op = "create"
                       THEN <<BookingUpdate(p, GeneratedCode(p, me.draw), CallerOf(p))>>
                       ELSE <<>>))
           /\ Set(p, [me EXCEPT !.pc = "resolved", !.slot = NoSlot])
    /\ UNCHANGED <<slots, bookings, rowLock, bookingLock, lock, lease, cache, jobs, faults>>

Resolve(p) == RS_FindSlot(p) \/ RS_Publish(p)

\* --------------------------------------------------------- specifications

NextCreate ==
    \/ \E p \in Procs : CreateBooking(p)
    \/ \E k \in SlotArgs : Expire(k)

Next ==
    \/ \E p \in Procs : CreateBooking(p)
    \/ \E p \in Procs : CancelBooking(p)
    \/ \E p \in Procs : BlockSlot(p)
    \/ \E p \in Procs : UnblockSlot(p)
    \/ \E k \in SlotArgs : Expire(k)

\* All four operations, from any provisioned state.
Spec == InitBooked /\ [][Next]_vars

\* All four operations, from freshly provisioned slots.
SpecFresh == InitFresh /\ [][Next]_vars

\* CreateBooking alone (with lease expiry), from freshly provisioned slots.
SpecCreate == InitFresh /\ [][NextCreate]_vars

\* The contention scenario: every invocation is CreateBooking(slot 1,
\* guestCount 1) by a user of its own, on a slot of capacity 1; no call into
\* the infrastructure fails.
UserOf(p) == ((p - 1) % NumUsers) + 1

InitContend ==
    /\ slots = [s \in SlotIds |-> SlotRow(1, 1, "AVAILABLE", "ok")]
    /\ bookings = {}
    /\ rowLock = [s \in SlotIds |-> NoProc]
    /\ bookingLock = [b \in BookingIds |-> NoProc]
    /\ lock = [k \in SlotArgs |-> NoProc]
    /\ lease = {}
    /\ cache = CacheEntry(OrderByStartTime(AvailableRows))
    /\ jobs = {}
    /\ faults = 0
    /\ inv = [p \in Procs |-> IdleInv]
    /\ events = <<>>
    /\ inbox = [sub \in Subscribers |-> <<>>]

ContendBooking(p) ==
    \/ CB_Acquire(p, UserOf(p), 1, 1)
    \/ CB_Connect(p)
    \/ CB_UserCheck(p)
    \/ CB_SelectSlot(p)
    \/ CB_LockRow(p)
    \/ CB_DupCheck(p)
    \/ CB_Commit(p)
    \/ CB_Invalidate(p)
    \/ CB_Enqueue(p)
    \/ CB_Catch(p)
    \/ CB_Release(p)
    \/ CB_Unlock(p)

NextContend ==
    \/ \E p \in Procs : ContendBooking(p)
    \/ \E k \in SlotIds : Expire(k)

SpecContend == InitContend /\ [][NextContend]_vars

\* Sequential requests: one CreateBooking at a time, each run to its end
\* before the next starts, no infrastructure failure; guestCount is whatever
\* the schema lets through.  The slot starts in any state its columns allow:
\* any status, any remainingCapacity the status goes with, any position in
\* time; what is missing from the capacity is held by a booking of user 2, and
\* user 1 may hold bookings on slots outside the model.
SeqProcs == 1 .. NumProcs + 1

OtherSlot == NumSlots + 2

SlotStatuses == {"AVAILABLE", "HELD", "BOOKED", "BLOCKED"}

PriorBookings(u, n) == {BookingRow(0 - i, u, OtherSlot, 1, "CONFIRMED") : i \in 1 .. n}

InitSeq ==
    /\ \E cap \in 1 .. MaxCapacity, rem \in 0 .. MaxCapacity, st \in SlotStatuses,
          w \in {"past", "ok", "far"},
          n \in {0, MaxConcurrentBookings - 1, MaxConcurrentBookings} :
          /\ rem <= cap
          /\ st \in {"AVAILABLE", "HELD"} => rem >= 1
          /\ st = "BOOKED" => rem = 0
          /\ slots = [s \in SlotIds |-> SlotRow(cap, rem, st, w)]
          /\ bookings = PriorBookings(1, n) \cup
                        {BookingRow(0, 2, s, cap - rem, "CONFIRMED") : s \in {x \in SlotIds : rem < cap}}
    /\ rowLock = [s \in SlotIds |-> NoProc]
    /\ bookingLock = [b \in BookingIds |-> NoProc]
    /\ lock = [k \in SlotArgs |-> NoProc]
    /\ lease = {}
    /\ cache = CacheEntry(OrderByStartTime(AvailableRows))
    /\ jobs = {}
    /\ faults = 0
    /\ inv = [p \in SeqProcs |-> IdleInv]
    /\ events = <<>>
    /\ inbox = [sub \in Subscribers |-> <<>>]

\* It is the turn of p: the earlier calls have returned, the later ones have
\* not started.
SeqTurn(p) ==
    \A q \in DOMAIN inv : (q < p => inv[q].pc = "done") /\ (q > p => inv[q].pc = "idle")

SeqCreateBooking(p) ==
    \/ SeqTurn(p) /\ \E u \in UserIds, s \in SlotArgs, g \in GuestArgs : CB_Acquire(p, u, s, g)
    \/ SeqTurn(p) /\ CB_Connect(p)
    \/ SeqTurn(p) /\ CB_UserCheck(p)
    \/ SeqTurn(p) /\ CB_SelectSlot(p)
    \/ SeqTurn(p) /\ CB_LockRow(p)
    \/ SeqTurn(p) /\ CB_DupCheck(p)
    \/ SeqTurn(p) /\ CB_Commit(p)
    \/ SeqTurn(p) /\ CB_Invalidate(p)
    \/ SeqTurn(p) /\ CB_Enqueue(p)
    \/ SeqTurn(p) /\ CB_Catch(p)
    \/ SeqTurn(p) /\ CB_Release(p)
    \/ SeqTurn(p) /\ CB_Unlock(p)

NextSeq == \E p \in SeqProcs : SeqCreateBooking(p)

SpecSeq == InitSeq /\ [][NextSeq]_vars

\* Concurrent requests on different slots: one slot more than elsewhere, each
\* with room for one guest, and user 1 already holding bookings on slots
\* outside the model, one short of the cap or at the cap.
CapSlots == 1 .. NumSlots + 1

InitCap ==
    /\ slots = [s \in CapSlots |-> SlotRow(1, 1, "AVAILABLE", "ok")]
    /\ \E n \in {MaxConcurrentBookings - 1, MaxConcurrentBookings} :
          bookings = PriorBookings(1, n)
    /\ rowLock = [s \in CapSlots |-> NoProc]
    /\ bookingLock = [b \in BookingIds |-> NoProc]
    /\ lock = [k \in {0} \cup CapSlots |-> NoProc]
    /\ lease = {}
    /\ cache = CacheEntry(OrderByStartTime(AvailableRows))
    /\ jobs = {}
    /\ faults = 0
    /\ inv = [p \in Procs |-> IdleInv]
    /\ events = <<>>
    /\ inbox = [sub \in Subscribers |-> <<>>]

CapCreateBooking(p) ==
    \/ \E u \in 1 .. NumUsers, s \in CapSlots : CB_Acquire(p, u, s, 1)
    \/ CB_Connect(p)
    \/ CB_UserCheck(p)
    \/ CB_SelectSlot(p)
    \/ CB_LockRow(p)
    \/ CB_DupCheck(p)
    \/ CB_Commit(p)
    \/ CB_Invalidate(p)
    \/ CB_Enqueue(p)
    \/ CB_Catch(p)
    \/ CB_Release(p)
    \/ CB_Unlock(p)

NextCap == \E p \in Procs : CapCreateBooking(p)

SpecCap == InitCap /\ [][NextCap]_vars

\* Cancellations alone: slot 1 carries booking 0 of user 1, CONFIRMED, and
\* starts either within the cancellation window or later.
InitCancel ==
    /\ \E cap \in 1 .. MaxCapacity, g \in GuestCounts, w \in {"soon", "ok"} :
          /\ g <= cap
          /\ slots = [s \in SlotIds |->
                        IF s = 1
                        THEN SlotRow(cap, cap - g, IF cap = g THEN "BOOKED" ELSE "AVAILABLE", w)
                        ELSE SlotRow(cap, cap, "AVAILABLE", w)]
          /\ bookings = {BookingRow(0, 1, 1, g, "CONFIRMED")}
    /\ InitCommon

NextCancel == \E p \in Procs : CancelBooking(p)

SpecCancel == InitCancel /\ [][NextCancel]_vars

\* Sequential requests of all four mutations: one call at a time, each run to
\* its end before the next starts.  Slot 1 starts in any state its columns
\* allow; what is missing from its capacity is held by booking 0 of user 1.
InitOps ==
    /\ \E cap \in 1 .. MaxCapacity, rem \in 0 .. MaxCapacity, st \in SlotStatuses :
          /\ rem <= cap
          /\ st \in {"AVAILABLE", "HELD"} => rem >= 1
          /\ st = "BOOKED" => rem = 0
          /\ slots = [s \in SlotIds |-> IF s = 1 THEN SlotRow(cap, rem, st, "ok")
                                                   ELSE SlotRow(cap, cap, "AVAILABLE", "ok")]
          /\ bookings = IF rem < cap THEN {BookingRow(0, 1, 1, cap - rem, "CONFIRMED")} ELSE {}
    /\ rowLock = [s \in SlotIds |-> NoProc]
    /\ bookingLock = [b \in BookingIds |-> NoProc]
    /\ lock = [k \in SlotArgs |-> NoProc]
    /\ lease = {}
    /\ cache = CacheEntry(OrderByStartTime(AvailableRows))
    /\ jobs = {}
    /\ faults = MaxFaults
    /\ inv = [p \in Procs |-> IdleInv]
    /\ events = <<>>
    /\ inbox = [sub \in Subscribers |-> <<>>]

OpsCall(p) ==
    \/ SeqTurn(p) /\ \E u \in UserIds, s \in SlotArgs, g \in GuestCounts : CB_Acquire(p, u, s, g)
    \/ SeqTurn(p) /\ CB_Connect(p)
    \/ SeqTurn(p) /\ CB_UserCheck(p)
    \/ SeqTurn(p) /\ CB_SelectSlot(p)
    \/ SeqTurn(p) /\ CB_LockRow(p)
    \/ SeqTurn(p) /\ CB_DupCheck(p)
    \/ SeqTurn(p) /\ CB_Commit(p)
    \/ SeqTurn(p) /\ CB_Invalidate(p)
    \/ SeqTurn(p) /\ CB_Enqueue(p)
    \/ SeqTurn(p) /\ CB_Catch(p)
    \/ SeqTurn(p) /\ CB_Release(p)
    \/ SeqTurn(p) /\ CB_Unlock(p)
    \/ SeqTurn(p) /\ \E b \in BookingIds, u \in UserIds : CN_Load(p, b, u)
    \/ SeqTurn(p) /\ CN_Connect(p)
    \/ SeqTurn(p) /\ CN_SaveBooking(p)
    \/ SeqTurn(p) /\ CN_LockSlot(p)
    \/ SeqTurn(p) /\ CN_Commit(p)
    \/ SeqTurn(p) /\ CN_Invalidate(p)
    \/ SeqTurn(p) /\ CN_Enqueue(p)
    \/ SeqTurn(p) /\ CN_Catch(p)
    \/ SeqTurn(p) /\ CN_Release(p)
    \/ SeqTurn(p) /\ BlockSlot(p)
    \/ SeqTurn(p) /\ UnblockSlot(p)

NextOps == \E p \in Procs : OpsCall(p)

SpecOps == InitOps /\ [][NextOps]_vars

\* Readers and bookers: GetAvailableSlots and CreateBooking calls, concurrent,
\* on two slots of capacity 1 in any status and at any start time, with a
\* cold cache and an entry that may expire; no infrastructure failure.  An
\* exhausted slot is held by a booking of the last user.
InitRead ==
    /\ \E st \in [CapSlots -> SlotStatuses], w \in [CapSlots -> {"started", "soon", "ok"}] :
          /\ slots = [s \in CapSlots |->
                        SlotRow(1, IF st[s] = "BOOKED" THEN 0 ELSE 1, st[s], w[s])]
          /\ bookings = {BookingRow(0 - s, NumUsers, s, 1, "CONFIRMED") :
                            s \in {x \in CapSlots : st[x] = "BOOKED"}}
    /\ rowLock = [s \in CapSlots |-> NoProc]
    /\ bookingLock = [b \in BookingIds |-> NoProc]
    /\ lock = [k \in {0} \cup CapSlots |-> NoProc]
    /\ lease = {}
    /\ cache = CacheMiss
    /\ jobs = {}
    /\ faults = 0
    /\ inv = [p \in Procs |-> IdleInv]
    /\ events = <<>>
    /\ inbox = [sub \in Subscribers |-> <<>>]

NextRead ==
    \/ \E p \in Procs : CapCreateBooking(p)
    \/ \E p \in Procs : GetAvailableSlots(p)
    \/ CacheExpire

SpecRead == InitRead /\ [][NextRead]_vars

\* Requests that name any venue: concurrent CreateBooking calls for one guest
\* on a slot with room for one, the venueId of the input being the slot's
\* venue or another one; no infrastructure failure.
VenueCreateBooking(p) ==
    \/ \E u \in 1 .. NumUsers, s \in SlotIds, v \in VenueArgs : CB_AcquireFor(p, u, s, 1, v)
    \/ CB_Connect(p)
    \/ CB_UserCheck(p)
    \/ CB_SelectSlot(p)
    \/ CB_LockRow(p)
    \/ CB_DupCheck(p)
    \/ CB_Commit(p)
    \/ CB_Invalidate(p)
    \/ CB_Enqueue(p)
    \/ CB_Catch(p)
    \/ CB_Release(p)
    \/ CB_Unlock(p)

NextVenue ==
    \/ \E p \in Procs : VenueCreateBooking(p)
    \/ \E k \in SlotIds : Expire(k)

SpecVenue == InitContend /\ [][NextVenue]_vars

\* The queue at work: the CreateBooking calls of the contention scenario on a
\* slot that is AVAILABLE or HELD (its hold run out), the two workers and the
\* recurring job.  The workers and the scheduler keep running.
InitQueue ==
    /\ \E st \in {"AVAILABLE", "HELD"} :
          slots = [s \in SlotIds |-> SlotRow(1, 1, st, "ok")]
    /\ bookings = {}
    /\ rowLock = [s \in SlotIds |-> NoProc]
    /\ bookingLock = [b \in BookingIds |-> NoProc]
    /\ lock = [k \in SlotArgs |-> NoProc]
    /\ lease = {}
    /\ cache = CacheEntry(OrderByStartTime(AvailableRows))
    /\ jobs = {}
    /\ faults = 0
    /\ inv = [p \in Procs |-> IdleInv]
    /\ events = <<>>
    /\ inbox = [sub \in Subscribers |-> <<>>]

WorkerStep == \E w \in WorkerNames, j \in jobs : WorkerProcess(w, j)

NextQueue ==
    \/ \E p \in Procs : ContendBooking(p)
    \/ WorkerStep
    \/ ScheduleTick

SpecQueue ==
    InitQueue /\ [][NextQueue]_vars /\ WF_vars(WorkerStep) /\ WF_vars(ScheduleTick)

\* The mutations with their resolvers: slot 1 of the home venue carries
\* booking 0 of user 1 and has one place left, slot 2 belongs to the other
\* venue and is empty; subscriptions are open for every venue and user.
VenueOf(s) == IF s = 1 THEN HomeVenue ELSE HomeVenue + 1

InitPublish ==
    /\ slots = [s \in CapSlots |->
                  [SlotRow(2, IF s = 1 THEN 1 ELSE 2, "AVAILABLE", "ok")
                       EXCEPT !.venueId = VenueOf(s)]]
    /\ bookings = {BookingRow(0, 1, 1, 1, "CONFIRMED")}
    /\ rowLock = [s \in CapSlots |-> NoProc]
    /\ bookingLock = [b \in BookingIds |-> NoProc]
    /\ lock = [k \in {0} \cup CapSlots |-> NoProc]
    /\ lease = {}
    /\ cache = CacheMiss
    /\ jobs = {}
    /\ faults = MaxFaults
    /\ inv = [p \in Procs |-> IdleInv]
    /\ events = <<>>
    /\ inbox = [sub \in Subscribers |-> <<>>]

NextPublish ==
    \/ \E p \in Procs : CapCreateBooking(p)
    \/ \E p \in Procs : CancelBooking(p)
    \/ \E p \in Procs : Resolve(p)

SpecPublish == InitPublish /\ [][NextPublish]_vars

\* Requests that do not cancel the same booking twice, when no call into the
\* infrastructure fails: every other invocation is a CreateBooking, the ones
\* between are CancelBooking calls, each of the booking made by the
\* invocation before it.  Nothing then reaches the catch block of
\* cancelBooking.
InitConverge ==
    /\ slots = [s \in CapSlots |->
                  [SlotRow(2, IF s = 1 THEN 1 ELSE 2, "AVAILABLE", "ok")
                       EXCEPT !.venueId = VenueOf(s)]]
    /\ bookings = {BookingRow(0, 1, 1, 1, "CONFIRMED")}
    /\ rowLock = [s \in CapSlots |-> NoProc]
    /\ bookingLock = [b \in BookingIds |-> NoProc]
    /\ lock = [k \in {0} \cup CapSlots |-> NoProc]
    /\ lease = {}
    /\ cache = CacheMiss
    /\ jobs = {}
    /\ faults = 0
    /\ inv = [p \in Procs |-> IdleInv]
    /\ events = <<>>
    /\ inbox = [sub \in Subscribers |-> <<>>]

CancelBooking_NoFailure(p) ==
    \/ \E u \in 1 .. NumUsers : CN_Load(p, p - 1, u)
    \/ CN_Connect(p)
    \/ CN_SaveBooking(p)
    \/ CN_LockSlot(p)
    \/ CN_Commit(p)
    \/ CN_Invalidate(p)
    \/ CN_Enqueue(p)
    \/ CN_Release(p)

NextConverge ==
    \/ \E p \in Procs : p % 2 = 1 /\ CapCreateBooking(p)
    \/ \E p \in Procs : p % 2 = 0 /\ CancelBooking_NoFailure(p)
    \/ \E p \in Procs : Resolve(p)

SpecConverge == InitConverge /\ [][NextConverge]_vars

\* Colliding confirmation codes: concurrent CreateBooking calls on two slots
\* with room for one guest each; the code that each call will generate is
\* drawn from a small set, and a booking on a slot outside the model already
\* carries the first code of that set.
Codes == 1 .. NumProcs

InitCode ==
    /\ slots = [s \in CapSlots |-> SlotRow(1, 1, "AVAILABLE", "ok")]
    /\ bookings = {[BookingRow(0, NumUsers, OtherSlot, 1, "CONFIRMED")
                        EXCEPT !.confirmationCode = 1]}
    /\ rowLock = [s \in CapSlots |-> NoProc]
    /\ bookingLock = [b \in BookingIds |-> NoProc]
    /\ lock = [k \in {0} \cup CapSlots |-> NoProc]
    /\ lease = {}
    /\ cache = CacheEntry(OrderByStartTime(AvailableRows))
    /\ jobs = {}
    /\ faults = 0
    /\ inv \in [Procs -> {[IdleInv EXCEPT !.draw = c] : c \in Codes}]
    /\ events = <<>>
    /\ inbox = [sub \in Subscribers |-> <<>>]

SpecCode == InitCode /\ [][NextCap]_vars

\* The process that runs CreateBooking p stops between acquireLock and the
\* end of the finally block: its database session ends (an open transaction
\* is rolled back and its row locks go), nothing releases the Redis key.
Crash(p) ==
    /\ inv[p].op = "create"
    /\ inv[p].pc \notin {"idle", "done"}
    /\ rowLock' = [r \in DOMAIN rowLock |-> IF rowLock[r] = p THEN NoProc ELSE rowLock[r]]
    /\ Set(p, Returned([inv[p] EXCEPT !.tx = FALSE, !.conn = FALSE], "CRASHED"))
    /\ UNCHANGED <<events, inbox, slots, bookings, bookingLock, lock, lease, cache, jobs, faults>>

\* The contention scenario with holders that may stop at any point; time
\* passes, so a key that is set does expire.
NextCrash ==
    \/ \E p \in Procs : ContendBooking(p)
    \/ \E p \in Procs : Crash(p)
    \/ \E k \in SlotIds : Expire(k)

SpecCrash ==
    InitContend /\ [][NextCrash]_vars /\ \A k \in SlotIds : WF_vars(Expire(k))

\* ------------------------------------------------------------- properties

RECURSIVE SumGuests(_)
SumGuests(B) ==
    IF B = {} THEN 0
    ELSE LET b == CHOOSE x \in B : TRUE
         IN  b.guestCount + SumGuests(B \ {b})

ConfirmedOn(s) == {b \in bookings : b.slotId = s /\ b.status = "CONFIRMED"}

\* Invocation p is a CreateBooking whose transaction committed.
Committed(p) == inv[p].op = "create" /\ \E b \in bookings : b.id = p

Finished(p) == inv[p].pc = "done"

\* C1: for every slot, remainingCapacity plus the guestCount of its CONFIRMED
\* bookings equals capacity, in every reachable state.
C1_NoOverAllocation ==
    \A s \in SlotIds :
        slots[s].remainingCapacity + SumGuests(ConfirmedOn(s)) = slots[s].capacity

\* C2: for every (user, slot) there is at most one CONFIRMED booking.
C2_NoDoubleBooking ==
    \A u \in UserIds, s \in SlotIds :
        Cardinality({b \in ConfirmedOn(s) : b.userId = u}) <= 1

\* C2 witness: a booking of user u on slot s is committed and a second
\* CreateBooking of u on s, which held the lease too, has been turned down.
C2_Witness ==
    \E p, q \in Procs :
        /\ p # q /\ Committed(p)
        /\ \E b \in ConfirmedOn(inv[q].slotId) : b.id = p /\ b.userId = inv[q].userId
        /\ inv[q].op = "create" /\ inv[q].pc = "catch" /\ inv[q].lockId = q
        /\ inv[q].err \in {"DUPLICATE_BOOKING", "SERIALIZATION_FAILURE"}

\* C3: once all N concurrent CreateBooking(guestCount 1) calls on the slot of
\* capacity 1 have returned, exactly one returned a booking, the slot is
\* BOOKED with remainingCapacity 0, and every other call failed with
\* SLOT_LOCKED or INSUFFICIENT_CAPACITY.
C3_ContentionWinner ==
    (\A p \in Procs : Finished(p)) =>
        /\ Cardinality({p \in Procs : inv[p].result = "OK"}) = 1
        /\ slots[1].remainingCapacity = 0 /\ slots[1].status = "BOOKED"
        /\ \A p \in Procs :
              inv[p].result \in {"OK", "SLOT_LOCKED", "INSUFFICIENT_CAPACITY"}

\* C4: 0 <= remainingCapacity <= capacity for every slot, in every state.
C4_CapacityBounds ==
    \A s \in SlotIds :
        0 <= slots[s].remainingCapacity /\ slots[s].remainingCapacity <= slots[s].capacity

\* C5: a slot that is not BLOCKED is BOOKED exactly when remainingCapacity = 0.
C5_StatusCapacity ==
    \A s \in SlotIds :
        slots[s].status # "BLOCKED" =>
            (slots[s].status = "BOOKED" <=> slots[s].remainingCapacity = 0)

\* The step in which invocation p runs acquireLock.
AcquireStep(p) == inv[p].pc = "idle" /\ inv'[p].op = "create"

\* The leases on key k that have neither expired nor been released.
LeasesOn(k) == {p \in lease : inv[p].slotId = k}

LeasesOnAfter(k) == {p \in lease' : inv'[p].slotId = k}

\* C6: at most one unexpired lease per key; acquire returns a token only if
\* the key holds no unexpired lease, and otherwise returns none and leaves
\* the existing lease as it is.
C6_LockMutualExclusion ==
    [][ /\ \A k \in SlotArgs : Cardinality(LeasesOnAfter(k)) <= 1
        /\ \A p \in Procs :
              AcquireStep(p) =>
                  LET k == inv'[p].slotId
                  IN  /\ (inv'[p].lockId # NoProc) <=> (LeasesOn(k) = {})
                      /\ LeasesOn(k) # {} =>
                            /\ lock'[k] = lock[k]
                            /\ LeasesOnAfter(k) = LeasesOn(k)
                            /\ inv'[p].result = "SLOT_LOCKED" ]_vars

\* C6 witness: an acquire was refused while another invocation holds the
\* unexpired lease on the same key.
C6_Witness ==
    \E p, q \in Procs :
        /\ p # q
        /\ Finished(p) /\ inv[p].result = "SLOT_LOCKED" /\ inv[p].lockId = NoProc
        /\ q \in lease /\ inv[q].slotId = inv[p].slotId /\ lock[inv[q].slotId] = q

\* The step in which invocation p runs releaseLock.
ReleaseStep(p) == inv[p].pc = "unlock" /\ inv'[p].pc = "done"

\* C7: release deletes the key exactly when it holds the caller's token; a
\* stale release returns false and leaves the new holder's lease in place.
C7_FencedRelease ==
    [][ \A p \in Procs :
          ReleaseStep(p) =>
              LET k == inv[p].slotId
                  token == inv[p].lockId
              IN  /\ lock[k] = token =>
                        lock'[k] = NoProc /\ inv'[p].releaseResult
                  /\ lock[k] # token =>
                        /\ lock' = lock /\ lease' = lease
                        /\ ~inv'[p].releaseResult ]_vars

\* C7 witness: a holder whose lease expired released after another invocation
\* had re-acquired the key: release returned false and the new lease stands.
C7_Witness ==
    \E p, q \in Procs :
        /\ p # q
        /\ Finished(p) /\ inv[p].released /\ ~inv[p].releaseResult
        /\ lock[inv[p].slotId] = q /\ q \in lease

\* C8: two CreateBookings on one slot never both commit a debit computed
\* from the same version of the row, and the guestCount of the committed
\* CONFIRMED bookings of a slot never exceeds its capacity.
C8_StorageAuthoritative ==
    /\ \A p, q \in Procs :
          (p # q /\ Committed(p) /\ Committed(q) /\ inv[p].slotId = inv[q].slotId)
              => inv[p].base # inv[q].base
    /\ \A s \in SlotIds : SumGuests(ConfirmedOn(s)) <= slots[s].capacity

\* C8 witness: p lost its lease while its transaction was open, q acquired the
\* lock and ran on the same slot; p committed and q was rejected by the store.
C8_Witness ==
    \E p, q \in Procs :
        /\ p # q /\ Committed(p)
        /\ inv[q].op = "create" /\ inv[q].lockId = q /\ inv[q].slotId = inv[p].slotId
        /\ inv[q].pc = "catch" /\ inv[q].err = "SERIALIZATION_FAILURE"

\* C9: a CreateBooking that acquired the lease has called releaseLock with
\* its token by the time it returns or throws.
C9_LockAlwaysReleased ==
    \A p \in Procs :
        (Finished(p) /\ inv[p].op = "create" /\ inv[p].lockId # NoProc)
            => inv[p].released

\* C10: a CreateBooking or CancelBooking whose transaction committed does
\* not end in an error because a step after the commit failed; so a call
\* that returns an error has persisted nothing.  (An error thrown by the
\* release of the storage connection is left aside: the claim is about the
\* cache, queue and notification steps.)
C10_CommittedNeverFails ==
    \A p \in Procs :
        (Finished(p) /\ inv[p].result \notin {"OK", "RELEASE_FAILED"})
            => /\ ~inv[p].committed
               /\ inv[p].op = "create" => ~Committed(p)

\* C11: a CreateBooking that meets a serialization conflict is retried and,
\* when the conflict repeats, fails with SLOT_LOCKED: no call ends with the
\* storage engine's serialization error.
C11_SerializationRetry ==
    \A p \in Procs :
        (Finished(p) /\ inv[p].op = "create")
            => inv[p].result # "SERIALIZATION_FAILURE"

\* C12: a CreateBooking invoked while another invocation holds an unexpired
\* lease on the slot fails at once with SLOT_LOCKED (409) and leaves slots,
\* bookings, cache, queue and the holder's lease as they were.
C12_ContentionNoEffect ==
    [][ \A p \in Procs :
          (AcquireStep(p) /\ LeasesOn(inv'[p].slotId) # {}) =>
              /\ inv'[p].pc = "done"
              /\ inv'[p].result = "SLOT_LOCKED"
              /\ StatusCode(inv'[p].result) = 409
              /\ UNCHANGED <<slots, bookings, cache, jobs, lock, lease, rowLock>> ]_vars

\* C12 witness: p was turned away with SLOT_LOCKED while q, holding the lease
\* on the same slot, is about to commit its debit.
C12_Witness ==
    \E p, q \in Procs :
        /\ p # q
        /\ Finished(p) /\ inv[p].op = "create" /\ inv[p].result = "SLOT_LOCKED"
        /\ inv[q].pc = "commit" /\ inv[q].slotId = inv[p].slotId
        /\ q \in lease /\ lock[inv[q].slotId] = q

\* The codes of the BookingErrors that createBooking throws after taking the lock.
DomainErrors ==
    {"USER_NOT_FOUND", "MAX_BOOKINGS_REACHED", "SLOT_NOT_FOUND", "SLOT_BLOCKED",
     "INSUFFICIENT_CAPACITY", "SLOT_IN_PAST", "ADVANCE_LIMIT_EXCEEDED",
     "DUPLICATE_BOOKING"}

\* C13: a CreateBooking that fails with a domain error has not committed, has
\* rolled back its transaction (no row lock left), has released its storage
\* connection, and no step of a CreateBooking that has not committed changes
\* slots, bookings, the cache or the queue.
C13_FailedCreateNoEffect ==
    [][ \A p \in Procs :
          /\ (inv'[p] # inv[p] /\ inv'[p].op = "create" /\ ~inv'[p].committed)
                => UNCHANGED <<slots, bookings, cache, jobs>>
          /\ (inv'[p].pc = "done" /\ inv'[p].op = "create"
                /\ inv'[p].result \in DomainErrors)
                => /\ ~inv'[p].committed /\ ~inv'[p].tx /\ ~inv'[p].conn
                   /\ \A s \in DOMAIN rowLock : rowLock'[s] # p
                   /\ \A j \in jobs' : j.bookingId # p ]_vars

\* C13 witness: a CreateBooking that had locked the slot row has returned a
\* domain error.
C13_Witness ==
    \E p \in Procs :
        /\ Finished(p) /\ inv[p].op = "create" /\ inv[p].lockId = p
        /\ inv[p].result \in {"INSUFFICIENT_CAPACITY", "DUPLICATE_BOOKING", "SLOT_BLOCKED"}

\* The order of the preconditions, as the claim lists them.
GauntletOrder ==
    <<"USER_NOT_FOUND", "MAX_BOOKINGS_REACHED", "SLOT_NOT_FOUND", "SLOT_BLOCKED",
      "INSUFFICIENT_CAPACITY", "SLOT_IN_PAST", "ADVANCE_LIMIT_EXCEEDED",
      "DUPLICATE_BOOKING">>

\* Whether the precondition named by code fails for the request (u, s, g) in
\* the current state, each precondition as the specification words it.
PreconditionFails(code, u, s, g) ==
    CASE code = "USER_NOT_FOUND" -> ~ActiveUser(u)
      [] code = "MAX_BOOKINGS_REACHED" -> ConfirmedCount(u) >= MaxConcurrentBookings
      [] code = "SLOT_NOT_FOUND" -> s \notin DOMAIN slots
      [] code = "SLOT_BLOCKED" -> s \in DOMAIN slots /\ slots[s].status = "BLOCKED"
      [] code = "INSUFFICIENT_CAPACITY" -> s \in DOMAIN slots /\ slots[s].remainingCapacity < g
      [] code = "SLOT_IN_PAST" -> s \in DOMAIN slots /\ slots[s].when = "past"
      [] code = "ADVANCE_LIMIT_EXCEEDED" -> s \in DOMAIN slots /\ slots[s].when = "far"
      [] code = "DUPLICATE_BOOKING" ->
            \E b \in bookings : b.userId = u /\ b.slotId = s /\ b.status = "CONFIRMED"

FailingPreconditions(u, s, g) ==
    {i \in 1 .. Len(GauntletOrder) : PreconditionFails(GauntletOrder[i], u, s, g)}

\* Invocation p is a CreateBooking that has just failed inside its
\* transaction: its arguments are still at hand and, the requests being
\* sequential, the state is the one the call found.
JustFailed(p) ==
    inv[p].op = "create" /\ inv[p].pc = "release" /\ inv[p].result \in DomainErrors

\* C14: when several preconditions of a CreateBooking (guestCount >= 1) fail
\* at once, the error returned is that of the first failing one in the order
\* of the gauntlet.
C14_PreconditionOrder ==
    \A p \in DOMAIN inv :
        LET failing == FailingPreconditions(inv[p].userId, inv[p].slotId, inv[p].guestCount)
        IN  (JustFailed(p) /\ inv[p].guestCount >= 1 /\ Cardinality(failing) >= 2)
                => \E i \in failing :
                      /\ inv[p].result = GauntletOrder[i]
                      /\ \A j \in failing : i <= j

\* Invocation q is a CreateBooking that has run up to its finally block, by
\* the user and on the slot of a CONFIRMED booking that an earlier
\* invocation created.
SecondCallOfUser(q) ==
    /\ inv[q].op = "create" /\ inv[q].pc = "release"
    /\ \E b \in bookings :
          /\ b.id \in DOMAIN inv /\ b.id # q /\ b.status = "CONFIRMED"
          /\ b.userId = inv[q].userId /\ b.slotId = inv[q].slotId

\* C15 (as claimed): the second sequential CreateBooking of a user on a slot
\* fails with DUPLICATE_BOOKING, also when the first booking exhausted the
\* slot (stated for requests with guestCount >= 1 of a user below the cap).
C15_DuplicateProtection ==
    \A q \in DOMAIN inv :
        (/\ SecondCallOfUser(q)
         /\ inv[q].guestCount >= 1
         /\ \A b \in bookings : b.guestCount >= 1
         /\ ConfirmedCount(inv[q].userId) < MaxConcurrentBookings)
            => inv[q].result = "DUPLICATE_BOOKING"

\* C15 (amended): the second sequential CreateBooking of a user on a slot
\* never succeeds; it fails with DUPLICATE_BOOKING unless an earlier check
\* fails first: MAX_BOOKINGS_REACHED when the user has reached the cap,
\* INSUFFICIENT_CAPACITY when the slot has no capacity left or less than
\* guestCount.
C15_DuplicateOrEarlierCheck ==
    \A q \in DOMAIN inv :
        SecondCallOfUser(q) =>
            LET rem == slots[inv[q].slotId].remainingCapacity
            IN  inv[q].result =
                    IF ConfirmedCount(inv[q].userId) >= MaxConcurrentBookings
                    THEN "MAX_BOOKINGS_REACHED"
                    ELSE IF rem = 0 \/ rem < inv[q].guestCount
                    THEN "INSUFFICIENT_CAPACITY"
                    ELSE "DUPLICATE_BOOKING"

\* C15 witness: the second call of the user was turned down as a duplicate.
C15_Witness ==
    \E q \in DOMAIN inv :
        SecondCallOfUser(q) /\ inv[q].result = "DUPLICATE_BOOKING"

\* The step in which the transaction of CreateBooking p commits.
CommitStep(p) == inv[p].pc = "commit" /\ inv'[p].committed

\* Invocation p is a CreateBooking, past its try block, whose request passes
\* every check before the one on capacity and those on time: active user
\* below the cap, guestCount >= 1, a slot that exists, is neither BLOCKED nor
\* HELD and lies within the booking horizon.
CapacityDecides(p) ==
    /\ inv[p].op = "create" /\ inv[p].pc = "release"
    /\ ActiveUser(inv[p].userId) /\ inv[p].guestCount >= 1
    /\ ConfirmedCount(inv[p].userId) < MaxConcurrentBookings
    /\ inv[p].slotId \in DOMAIN slots
    /\ slots[inv[p].slotId].status \in {"AVAILABLE", "BOOKED"}
    /\ slots[inv[p].slotId].when = "ok"

\* C16: the commit of a CreateBooking with guestCount g lowers
\* remainingCapacity by exactly g, sets BOOKED exactly when the new
\* remainingCapacity is 0 (status unchanged otherwise) and adds one CONFIRMED
\* booking; of sequential requests that only capacity or a duplicate can
\* stop, each fails with INSUFFICIENT_CAPACITY exactly when its guestCount
\* does not fit, and otherwise succeeds unless the user already holds a
\* booking on the slot (so bookings of distinct users that sum to capacity
\* all succeed and the next request fails with INSUFFICIENT_CAPACITY).
C16_DebitSemantics ==
    [][ \A p \in DOMAIN inv :
          /\ CommitStep(p) =>
                LET s == inv[p].slotId
                    g == inv[p].guestCount
                    new == bookings' \ bookings
                IN  /\ slots'[s].remainingCapacity = slots[s].remainingCapacity - g
                    /\ slots'[s].capacity = slots[s].capacity
                    /\ slots'[s].status =
                          IF slots'[s].remainingCapacity = 0 THEN "BOOKED" ELSE slots[s].status
                    /\ bookings \subseteq bookings'
                    /\ new = {BookingRow(p, inv[p].userId, s, g, "CONFIRMED")}
          /\ CapacityDecides(p)' =>
                /\ inv'[p].result \in {"OK", "INSUFFICIENT_CAPACITY", "DUPLICATE_BOOKING"}
                /\ inv'[p].result = "OK" => slots'[inv'[p].slotId].remainingCapacity >= 0
                /\ inv'[p].result = "DUPLICATE_BOOKING" =>
                      /\ slots'[inv'[p].slotId].remainingCapacity >= inv'[p].guestCount
                      /\ \E b \in bookings' :
                            /\ b.id # p /\ b.status = "CONFIRMED"
                            /\ b.userId = inv'[p].userId /\ b.slotId = inv'[p].slotId
                /\ inv'[p].result = "INSUFFICIENT_CAPACITY" =>
                      slots'[inv'[p].slotId].remainingCapacity < inv'[p].guestCount ]_vars

\* C16 witness: bookings made by earlier calls fill the slot exactly
\* (remainingCapacity 0, BOOKED), at least two of them, and the next call,
\* for one guest, has failed with INSUFFICIENT_CAPACITY.
C16_Witness ==
    \E p \in DOMAIN inv, s \in DOMAIN slots :
        LET made == {b \in ConfirmedOn(s) : b.id \in DOMAIN inv}
        IN  /\ Cardinality(made) >= 2 /\ SumGuests(made) = slots[s].capacity
            /\ slots[s].remainingCapacity = 0 /\ slots[s].status = "BOOKED"
            /\ CapacityDecides(p) /\ inv[p].slotId = s /\ inv[p].guestCount = 1
            /\ inv[p].result = "INSUFFICIENT_CAPACITY"

\* C17: for an existing slot that is not BLOCKED and an active user below the
\* cap, a CreateBooking (guestCount >= 1) fails with INSUFFICIENT_CAPACITY if
\* and only if remainingCapacity < guestCount; a HELD slot with room is not
\* turned down for capacity.
C17_InsufficientCapacityIff ==
    \A p \in DOMAIN inv :
        (/\ JustFailed(p)
         /\ ActiveUser(inv[p].userId) /\ inv[p].guestCount >= 1
         /\ ConfirmedCount(inv[p].userId) < MaxConcurrentBookings
         /\ inv[p].slotId \in DOMAIN slots
         /\ slots[inv[p].slotId].status # "BLOCKED")
            => (inv[p].result = "INSUFFICIENT_CAPACITY"
                    <=> slots[inv[p].slotId].remainingCapacity < inv[p].guestCount)

\* C18: no user ever has more than MAX_CONCURRENT_BOOKINGS_PER_USER bookings
\* in status CONFIRMED.
C18_PerUserCap ==
    \A u \in UserIds : ConfirmedCount(u) <= MaxConcurrentBookings

\* C19: every booking that CreateBooking persisted has
\* 1 <= guestCount <= capacity of its slot (so a request with guestCount <= 0
\* persists nothing), and no CreateBooking raises remainingCapacity.
C19_GuestCountValid ==
    [][ /\ \A b \in bookings' :
              (b.id \in DOMAIN inv /\ b.slotId \in DOMAIN slots) =>
                  (1 <= b.guestCount /\ b.guestCount <= slots'[b.slotId].capacity)
        /\ \A p \in DOMAIN inv :
              (inv'[p] # inv[p] /\ inv'[p].op = "create") =>
                  \A s \in DOMAIN slots :
                      slots'[s].remainingCapacity <= slots[s].remainingCapacity ]_vars

\* C20: while a booking's slot starts within the cancellation window (not
\* later than now + CANCELLATION_WINDOW_HOURS), a CancelBooking of that
\* booking is refused: none commits, none returns the booking, and the
\* booking stays CONFIRMED.
C20_CancelOutsideWindowRefused ==
    \A p \in Procs :
        (/\ inv[p].op = "cancel"
         /\ \E b \in bookings :
               b.id = inv[p].bookingId /\ WithinCancellationWindow(slots[b.slotId]))
            => /\ ~inv[p].committed
               /\ inv[p].result # "OK"
               /\ \A b \in bookings : b.id = inv[p].bookingId => b.status = "CONFIRMED"

\* The step on which the transaction of CancelBooking p commits.
CancelCommitStep(p) == inv[p].pc = "ccommit" /\ inv'[p].committed

\* remainingCapacity of slot s before any call: its capacity less the guests
\* of booking 0, the only booking the sequential scenarios start with.
PriorRemaining(s) ==
    slots[s].capacity - SumGuests({b \in bookings : b.id = 0 /\ b.slotId = s})

\* Calls p and q, one after the other, are the only calls so far.
OnlyCalls(p, q) ==
    /\ q = p + 1
    /\ \A r \in DOMAIN inv : r < p => FALSE
    /\ \A r \in DOMAIN inv : r > q => inv[r].pc = "idle"

\* Call q is a successful CancelBooking of the booking that the successful
\* CreateBooking p made; the calls are sequential and nothing else ran.
CreateThenCancel(p, q) ==
    /\ OnlyCalls(p, q)
    /\ Finished(p) /\ inv[p].op = "create" /\ inv[p].result = "OK"
    /\ Finished(q) /\ inv[q].op = "cancel" /\ inv[q].result = "OK"
    /\ inv[q].bookingId = p

\* C21: the commit of a CancelBooking sets the booking CANCELLED, raises the
\* slot's remainingCapacity by exactly the booking's guestCount and turns the
\* status from BOOKED to AVAILABLE when the new remainingCapacity is above 0
\* (any other status is kept); and a CreateBooking followed by the
\* CancelBooking of the booking it made leaves the slot with the
\* remainingCapacity and the status (AVAILABLE) it had before.
C21_CancelRestoresCapacity ==
    /\ [][ \A p \in Procs : CancelCommitStep(p) =>
              \A b \in bookings : b.id = inv[p].bookingId =>
                  LET old == slots[b.slotId]
                      new == slots'[b.slotId]
                  IN  /\ \A c \in bookings' : c.id = b.id => c.status = "CANCELLED"
                      /\ new.remainingCapacity = old.remainingCapacity + b.guestCount
                      /\ new.status = IF old.status = "BOOKED" /\ new.remainingCapacity > 0
                                      THEN "AVAILABLE" ELSE old.status ]_vars
    /\ [](\A p, q \in Procs : CreateThenCancel(p, q) =>
              LET s == inv[p].slotId
              IN  /\ slots[s].remainingCapacity = PriorRemaining(s)
                  /\ slots[s].status = "AVAILABLE")

\* A create that exhausted the slot, then the cancel that reopened it.
C21_Witness ==
    \E p, q \in Procs :
        /\ CreateThenCancel(p, q)
        /\ \E b \in bookings :
              /\ b.id = p /\ b.status = "CANCELLED"
              /\ b.guestCount = slots[b.slotId].remainingCapacity
              /\ slots[b.slotId].status = "AVAILABLE"

\* Call q is a CancelBooking that starts after CancelBooking p of the same
\* booking returned that booking; q takes a step.
SecondCancelStep(p, q) ==
    /\ p < q
    /\ Finished(p) /\ inv[p].op = "cancel" /\ inv[p].result = "OK"
    /\ inv'[q] # inv[q] /\ inv'[q].op = "cancel"
    /\ inv'[q].bookingId = inv[p].bookingId

\* C22: of two CancelBooking calls of one booking made in sequence, the first
\* having succeeded, the second changes neither the slot (remainingCapacity
\* stays as the first left it) nor the booking, and fails with
\* CANCELLATION_NOT_ALLOWED (a caller who is not the owner is refused as
\* UNAUTHORIZED before that).
C22_SequentialDoubleCancel ==
    [][ \A p, q \in Procs : SecondCancelStep(p, q) =>
            /\ UNCHANGED <<slots, bookings>>
            /\ inv'[q].pc = "done"
            /\ \/ inv'[q].result = "CANCELLATION_NOT_ALLOWED"
               \/ /\ inv'[q].result = "UNAUTHORIZED"
                  /\ \A b \in bookings : b.id = inv'[q].bookingId => b.userId # inv'[q].userId ]_vars

\* Both calls returned: the first with the booking, the second refused.
C22_Witness ==
    \E p, q \in Procs :
        /\ p < q
        /\ Finished(p) /\ inv[p].op = "cancel" /\ inv[p].result = "OK"
        /\ Finished(q) /\ inv[q].op = "cancel" /\ inv[q].bookingId = inv[p].bookingId
        /\ inv[q].result = "CANCELLATION_NOT_ALLOWED"
        /\ \E b \in bookings : b.id = inv[q].bookingId /\ b.status = "CANCELLED"
                                 /\ slots[b.slotId].remainingCapacity = slots[b.slotId].capacity

\* C23: a CancelBooking is refused as UNAUTHORIZED only when its caller is
\* neither the owner of the booking nor a user with role ADMIN (an
\* administrator who is not the owner is not rejected).
C23_CancelAuthorization ==
    \A p \in Procs :
        (inv[p].op = "cancel" /\ inv[p].result = "UNAUTHORIZED") =>
            \A b \in bookings : b.id = inv[p].bookingId =>
                (b.userId # inv[p].userId /\ RoleOf(inv[p].userId) # "admin")

TerminalStatuses == {"CANCELLED", "COMPLETED", "NO_SHOW"}

\* The transitions of Booking.status that the lifecycle allows.
AllowedTransition(from, to) ==
    \/ from = "PENDING" /\ to = "CONFIRMED"
    \/ from = "CONFIRMED" /\ to \in {"COMPLETED", "NO_SHOW"}
    \/ from \notin TerminalStatuses /\ to = "CANCELLED"

\* C24: a booking in a terminal status (CANCELLED, COMPLETED, NO_SHOW) is
\* never changed again, in status, cancelledAt, cancellationReason or any
\* other field, by any operation, CancelBooking calls in sequence or
\* concurrent included; and every change of status is an allowed transition.
C24_TerminalImmutable ==
    [][ \A b \in bookings :
            /\ b.status \in TerminalStatuses => b \in bookings'
            /\ \A c \in bookings' :
                  (c.id = b.id /\ c.status # b.status) => AllowedTransition(b.status, c.status) ]_vars

Mutations == {"create", "cancel", "block", "unblock"}

\* C25: once a CreateBooking, CancelBooking, BlockSlot or UnblockSlot has
\* returned successfully, it has deleted the cache entry of the slot's venue
\* and date: with no reader to store the entry again, the entry is absent.
C25_CacheCoherence ==
    (\E p \in Procs : Finished(p) /\ inv[p].op \in Mutations /\ inv[p].result = "OK")
        => ~cache.hit

\* CreateBooking q has committed and has deleted the cache entry.
PastInvalidation(q) ==
    /\ inv[q].op = "create" /\ inv[q].committed
    /\ inv[q].pc \in {"enqueue", "release", "unlock", "done"}

ListedSlots(l) == {l[i] : i \in 1 .. Len(l)}

\* C26: once a CreateBooking that exhausted slot S has completed its cache
\* invalidation, and while S stays exhausted, no GetAvailableSlots returns a
\* list with S: the cache entry, which a hit returns as it is, does not list
\* S (and a miss reads storage, where S is exhausted).
C26_NoStaleAvailability ==
    \A q \in Procs :
        (PastInvalidation(q) /\ slots[inv[q].slotId].remainingCapacity = 0)
            => ~(cache.hit /\ inv[q].slotId \in ListedSlots(cache.list))

\* l lists, once each and in ascending order of start time, exactly the slots
\* that are AVAILABLE with remainingCapacity above 0 and start after now.
IsReadThroughList(l) ==
    /\ ListedSlots(l) = {s \in DOMAIN slots : IsAvailable(slots[s]) /\ StartsAfterNow(slots[s])}
    /\ \A i, j \in 1 .. Len(l) :
          i < j => (l[i] # l[j] /\ StartRank(slots[l[i]]) <= StartRank(slots[l[j]]))

\* C27: GetAvailableSlots on a cache miss goes to storage, where it reads
\* exactly the slots that are AVAILABLE with remainingCapacity above 0 and
\* startTime after now, in ascending order of startTime, then stores that
\* list in the cache and returns it; on a hit it returns the cached list
\* at once, without reading storage and without writing the cache.
C27_ReadThrough ==
    [][ \A p \in Procs :
            /\ (inv[p].pc = "idle" /\ inv'[p].op = "read") =>
                   IF cache.hit
                   THEN /\ inv'[p].pc = "done" /\ inv'[p].result = "OK"
                        /\ inv'[p].list = cache.list
                        /\ cache' = cache
                   ELSE inv'[p].pc = "query"
            /\ (inv[p].pc = "query" /\ inv'[p].pc # "query") =>
                   (IsReadThroughList(inv'[p].list) /\ inv'[p].pc = "cacheset")
            /\ (inv[p].pc = "cacheset" /\ inv'[p].pc # "cacheset") =>
                   /\ inv'[p].pc = "done" /\ inv'[p].result = "OK"
                   /\ inv'[p].list = inv[p].list
                   /\ cache' = CacheEntry(inv[p].list) ]_vars

\* A read returned both slots, the one with the higher id first because it
\* starts earlier, and that list is what the cache holds.
C27_Witness ==
    \E p \in Procs :
        /\ Finished(p) /\ inv[p].op = "read"
        /\ Len(inv[p].list) = 2
        /\ inv[p].list[1] > inv[p].list[2]
        /\ cache = CacheEntry(inv[p].list)

\* The locked read of CreateBooking p returns the row of its slot.
LockedReadStep(p) ==
    /\ inv[p].pc = "rowwait" /\ inv'[p].pc # "rowwait"
    /\ ~SerializationConflict(inv[p].slotId, inv[p].snap)

\* C28: no step of a CreateBooking or a CancelBooking changes the status of a
\* slot that is BLOCKED; a CreateBooking whose locked read returns a BLOCKED
\* row fails with SLOT_BLOCKED; and a BlockSlot that returned is not undone
\* by a CreateBooking or CancelBooking that was in flight: unless an
\* UnblockSlot is called, the slot is BLOCKED from then on.
C28_BlockedClosed ==
    /\ [][ \A p \in Procs :
              /\ (inv'[p] # inv[p] /\ inv'[p].op \in {"create", "cancel"}) =>
                     \A s \in DOMAIN slots :
                         slots[s].status = "BLOCKED" => slots'[s].status = "BLOCKED"
              /\ (LockedReadStep(p) /\ slots[inv[p].slotId].status = "BLOCKED") =>
                     inv'[p].err = "SLOT_BLOCKED" ]_vars
    /\ [](\A p \in Procs :
              (/\ Finished(p) /\ inv[p].op = "block" /\ inv[p].result = "OK"
               /\ \A r \in Procs : inv[r].op # "unblock")
                  => slots[inv[p].slotId].status = "BLOCKED")

\* A BlockSlot returned while a CreateBooking on the slot was in flight: the
\* CreateBooking had issued its locked read before the block was saved.
C28_Witness ==
    \E p, q \in Procs :
        /\ Finished(p) /\ inv[p].op = "block" /\ inv[p].result = "OK"
        /\ inv[q].op = "create" /\ inv[q].pc = "rowwait" /\ inv[q].slotId = inv[p].slotId
        /\ inv[q].snap # slots[inv[p].slotId].ver
        /\ slots[inv[p].slotId].status = "BLOCKED"

\* Call q is an UnblockSlot of the slot that BlockSlot p blocked; the calls
\* are sequential and nothing else ran.
BlockThenUnblock(p, q) ==
    /\ OnlyCalls(p, q)
    /\ Finished(p) /\ inv[p].op = "block" /\ inv[p].result = "OK"
    /\ Finished(q) /\ inv[q].op = "unblock" /\ inv[q].result = "OK"
    /\ inv[q].slotId = inv[p].slotId

\* C29: whatever state the slot is in, a BlockSlot followed by an UnblockSlot
\* with no call in between leaves it with status AVAILABLE and with the
\* remainingCapacity it had before.
C29_BlockUnblockRoundTrip ==
    \A p, q \in Procs : BlockThenUnblock(p, q) =>
        LET s == inv[p].slotId
        IN  /\ slots[s].status = "AVAILABLE"
            /\ slots[s].remainingCapacity = PriorRemaining(s)

\* The round trip on a slot that a booking holds in part.
C29_Witness ==
    \E p, q \in Procs :
        /\ BlockThenUnblock(p, q)
        /\ slots[inv[p].slotId].remainingCapacity \in 1 .. slots[inv[p].slotId].capacity - 1
        /\ slots[inv[p].slotId].blockedBy = p

\* The fields of a slot row that the claims speak of.
SlotFields(slot) ==
    <<slot.status, slot.remainingCapacity, slot.capacity, slot.blockedBy>>

\* C30: a BlockSlot on a slot that a BlockSlot already blocked changes no
\* field of it (status, remainingCapacity, the blocker's identity and reason
\* in metadata), and an UnblockSlot on a slot that is AVAILABLE changes no
\* field either (unblocking twice is unblocking once).
C30_BlockIdempotent ==
    [][ \A p \in Procs :
            (inv[p].pc = "adminsave" /\ inv'[p].pc = "done") =>
                LET s == inv[p].slotId
                IN  /\ (inv[p].op = "block" /\ slots[s].status = "BLOCKED"
                                            /\ slots[s].blockedBy # NoProc)
                           => SlotFields(slots'[s]) = SlotFields(slots[s])
                    /\ (inv[p].op = "unblock" /\ slots[s].status = "AVAILABLE")
                           => SlotFields(slots'[s]) = SlotFields(slots[s]) ]_vars

\* The step on which a BlockSlot or an UnblockSlot saves the slot.
AdminSaveStep(p) == inv[p].pc = "adminsave" /\ inv'[p].pc = "done"

\* C31: the save of a BlockSlot or an UnblockSlot leaves the slot's
\* remainingCapacity (and capacity) as stored, also when a CreateBooking or a
\* CancelBooking committed on the slot between the read and the save.
C31_BlockPreservesCapacity ==
    [][ \A p \in Procs : AdminSaveStep(p) =>
            LET s == inv[p].slotId
            IN  /\ slots'[s].remainingCapacity = slots[s].remainingCapacity
                /\ slots'[s].capacity = slots[s].capacity ]_vars

\* The CancelBooking calls of booking b whose transaction committed: each of
\* them credited the slot with the guestCount of b.
CommittedCancels(b) ==
    {p \in Procs : inv[p].op = "cancel" /\ inv[p].committed /\ inv[p].bookingId = b}

\* C38: over all CancelBooking calls of one booking, concurrent ones that
\* both read it as CONFIRMED included, at most one commits (so the slot is
\* credited with the booking's guestCount at most once) and at most one
\* returns the booking.
C38_CreditedAtMostOnce ==
    \A b \in BookingIds : Cardinality(CommittedCancels(b)) <= 1

\* Invocation p stopped while the key of slot k held its lockId.
CrashedHolder(p, k) ==
    Finished(p) /\ inv[p].result = "CRASHED" /\ lock[k] = p

\* C37: a key whose holder stopped without releasing it does not stay set
\* for ever, its TTL removes it; and an acquire on a key that is not set is
\* granted, so CreateBooking on the slot stops failing with SLOT_LOCKED.
C37_CrashedHolderExpires ==
    /\ \A p \in Procs, k \in SlotIds : CrashedHolder(p, k) ~> (lock[k] # p)
    /\ [][ \A q \in Procs :
              (AcquireStep(q) /\ lock[inv'[q].slotId] = NoProc) =>
                  (inv'[q].result # "SLOT_LOCKED" /\ lock'[inv'[q].slotId] = q) ]_vars

\* The key of a holder that stopped is now held by a later CreateBooking.
C37_Witness ==
    \E p, q \in Procs :
        /\ p # q
        /\ Finished(p) /\ inv[p].result = "CRASHED" /\ inv[p].lockId = p /\ ~inv[p].released
        /\ inv[q].op = "create" /\ inv[q].slotId = inv[p].slotId
        /\ lock[inv[p].slotId] = q

\* The INSERT of the booking of invocation p was refused by the unique index.
Collided(p) ==
    inv'[p].err = "UNIQUE_VIOLATION" \/ inv'[p].result = "UNIQUE_VIOLATION"

\* C36: no two distinct bookings carry the same confirmationCode; and no step
\* of a CreateBooking whose generated code collided with the code of an
\* existing booking changes a booking or a slot: it persists nothing and
\* debits nothing.
C36_CodeUnique ==
    /\ [](\A b, c \in bookings : b.id # c.id => b.confirmationCode # c.confirmationCode)
    /\ [][ \A p \in Procs :
              (inv'[p] # inv[p] /\ Collided(p)) => UNCHANGED <<slots, bookings>> ]_vars

\* A call returned the unique violation: its code is the code of the booking
\* that another call of the model committed.
C36_Witness ==
    \E p \in Procs :
        /\ Finished(p) /\ inv[p].result = "UNIQUE_VIOLATION"
        /\ \A b \in bookings : b.id # p
        /\ \E b \in bookings : /\ b.id \in Procs
                                /\ b.confirmationCode = GeneratedCode(p, inv[p].draw)
        /\ slots[inv[p].slotId].remainingCapacity = 1

\* C39: every booking that CreateBooking persisted carries the venueId of its
\* slot, and once a CreateBooking has committed and run its invalidation the
\* cache entry of the slot's own venue and date is gone (no reader stores it
\* again here), whatever venueId the request carried.
C39_VenueAgreement ==
    /\ \A b \in bookings :
          b.slotId \in DOMAIN slots => b.venueId = slots[b.slotId].venueId
    /\ (\E q \in Procs : PastInvalidation(q)) => ~cache.hit

\* C32: a job whose name has a registered handler is completed only by the
\* worker bound to its name, which passes it to that handler; no worker bound
\* to another name consumes it.
C32_WorkerNameBinding ==
    \A j \in jobs :
        (j.name \in WorkerNames /\ j.state = "completed") => j.handledBy = j.name

\* C33: a slot that is HELD with heldUntil in the past is eventually AVAILABLE
\* again (the recurring slot:reclaim-expired-holds job reclaims it).
C33_ExpiredHoldsReclaimed ==
    \A s \in SlotIds :
        (slots[s].status = "HELD" /\ slots[s].heldUntil = "past")
            ~> (slots[s].status = "AVAILABLE")

\* The committed row of booking b, and what was enqueued and published for it.
RowOf(b) == CHOOSE r \in bookings : r.id = b

ConfirmedJobs(b) == {j \in jobs : j.name = "booking:confirmed" /\ j.bookingId = b}

BookingUpdates(b) ==
    {i \in 1 .. Len(events) : events[i].type = "BookingUpdate" /\ events[i].bookingId = b}

\* The CreateBooking call p has returned a booking to its resolver.
ReturnedBooking(p) ==
    /\ inv[p].op = "create"
    /\ inv[p].pc \in {"done", "publish", "resolved"}
    /\ inv[p].result = "OK"

\* C34: the booking:confirmed job of a CreateBooking is enqueued, and its
\* SlotUpdate and BookingUpdate are published, only once its transaction has
\* committed, and no job or BookingUpdate exists for a booking that was not
\* committed; a call that returned a booking has enqueued exactly one
\* booking:confirmed job, with the booking's id, user id and confirmation code,
\* and, once its resolver is through, has published exactly one BookingUpdate,
\* for that user.
C34_SideEffectsAfterCommit ==
    /\ [][ \A p \in Procs :
              (inv[p].op = "create" /\
                 (jobs' # jobs \/ events' # events) /\ inv'[p] # inv[p])
                  => /\ inv[p].committed
                     /\ \E r \in bookings : r.id = p ]_vars
    /\ [](\A j \in jobs :
              j.name = "booking:confirmed" => \E r \in bookings : r.id = j.bookingId)
    /\ [](\A i \in 1 .. Len(events) :
              events[i].type = "BookingUpdate"
                  => \E r \in bookings : r.id = events[i].bookingId)
    /\ [](\A p \in Procs :
              ReturnedBooking(p)
                  => /\ Cardinality(ConfirmedJobs(p)) = 1
                     /\ \A j \in ConfirmedJobs(p) :
                           /\ j.userId = RowOf(p).userId
                           /\ j.confirmationCode = RowOf(p).confirmationCode
                     /\ inv[p].pc = "resolved"
                           => /\ Cardinality(BookingUpdates(p)) = 1
                              /\ \A i \in BookingUpdates(p) :
                                    events[i].userId = RowOf(p).userId)

C34_Witness ==
    \E p \in Procs : ReturnedBooking(p) /\ inv[p].pc = "resolved"

\* C35: a subscriber to SLOT_UPDATED with venueId V is handed only SlotUpdate
\* events of venue V, and a subscriber to BOOKING_UPDATED with userId U only
\* BookingUpdate events published for user U.
C35_SubscriptionFilters ==
    \A sub \in Subscribers : \A i \in 1 .. Len(inbox[sub]) :
        LET e == inbox[sub][i]
        IN  IF sub.topic = "SLOT_UPDATED"
            THEN e.type = "SlotUpdate" /\ e.venueId = sub.venueId
            ELSE e.type = "BookingUpdate" /\ e.userId = sub.userId

\* Events of two venues and of some user were published, and a subscriber of
\* one venue was handed its own.
C35_Witness ==
    \E sub \in Subscribers :
        /\ sub.topic = "SLOT_UPDATED"
        /\ Len(inbox[sub]) > 0
        /\ \E i \in 1 .. Len(events) :
              events[i].type = "SlotUpdate" /\ events[i].venueId # sub.venueId
        /\ \E i \in 1 .. Len(events) : events[i].type = "BookingUpdate"

\* No request is in flight: every call has thrown, or its resolver has
\* published and returned.
AllFinished ==
    \A p \in Procs :
        \/ inv[p].pc \in {"idle", "resolved"}
        \/ inv[p].pc = "done" /\ inv[p].result # "OK"

\* events[i] is the last SlotUpdate published for slot s.
IsLastSlotUpdate(i, s) ==
    /\ events[i].type = "SlotUpdate"
    /\ events[i].slotId = s
    /\ \A j \in (i + 1) .. Len(events) :
          ~(events[j].type = "SlotUpdate" /\ events[j].slotId = s)

\* C40: once all in-flight CreateBooking and CancelBooking requests have
\* finished, the last SlotUpdate published for a slot carries the status and
\* remainingCapacity stored for that slot.
C40_PublishedStateConverges ==
    AllFinished =>
        \A s \in DOMAIN slots : \A i \in 1 .. Len(events) :
            IsLastSlotUpdate(i, s)
                => /\ events[i].status = slots[s].status
                   /\ events[i].remainingCapacity = slots[s].remainingCapacity

====
